---- MODULE Spec2Model ----
(***************************************************************************)
(* SolarDB query layer (solardb/db/data.py): the PowerPlantID value type,  *)
(* the three range fetches get_pp_power / get_pp_weather /                 *)
(* get_pp_exogenous and the smoothing resampler inside get_pp_weather.     *)
(*                                                                         *)
(* Conventions                                                             *)
(*  - a timestamp is a number of minutes since an epoch; day d covers      *)
(*    d*DayMinutes .. (d+1)*DayMinutes - 1;                                *)
(*  - an optional value (Python None, a NULL column, a NaN / NaT cell) is  *)
(*    the empty tuple <<>>, a present value x is <<x>>;                    *)
(*  - a float cell is an exact fraction <<n, d>> in lowest terms (d > 0),  *)
(*    so the arithmetic of the interpolation is modelled without rounding; *)
(*  - a date / datetime argument is <<"date", d>> or <<"datetime", t>>.    *)
(***************************************************************************)
EXTENDS Integers, Sequences, FiniteSets, TLC

VARIABLES
    weather,    \* rows of the "weather" table
    power,      \* rows of the "power" table
    exogenous,  \* rows of the "exogenous" table
    call,       \* the operation invoked last, with its arguments
    result,     \* what that operation returned or raised
    queries,    \* number of statements that operation sent to the store
    source,     \* the frame get_pp_weather handed to its resampling step
    meta,       \* rows of the "meta" table
    files,      \* the database files on disk: path -> the four tables it holds
    caller      \* the caller's DataFrame objects after the call

vars == <<weather, power, exogenous, call, result, queries, source, meta, files, caller>>

-----------------------------------------------------------------------------
(* Configuration (solardb/config/static.py) and calendar.                   *)

P_FREQUENCY == 5
S_FREQUENCY == 60
DayMinutes == 24 * 60

(* Bounds of the model. *)
MaxRecords == 2

None == <<>>
NaN == <<>>
Some(x) == <<x>>

-----------------------------------------------------------------------------
(* solardb/common/util.py is not part of the sources at hand; the four     *)
(* helpers below follow their names and the way data.py uses them.         *)

date_earliest_date_time(d) == d * DayMinutes

date_latest_date_time(t) == (t \div DayMinutes) * DayMinutes + (DayMinutes - 1)

freq_floor(t, freq) == t - (t % freq)

freq_ceil(t, freq) == freq_floor(t + freq - 1, freq)

(* dt if isinstance(dt, datetime.datetime) else date_earliest_date_time(dt) *)
ConvertStart(arg) ==
    IF arg[1] = "datetime" THEN arg[2] ELSE date_earliest_date_time(arg[2])

ConvertEnd(arg) ==
    IF arg[1] = "datetime" THEN arg[2] ELSE date_earliest_date_time(arg[2])

-----------------------------------------------------------------------------
(* Exact fractions.                                                         *)

RECURSIVE GCD(_, _)
GCD(a, b) == IF b = 0 THEN a ELSE GCD(b, a % b)

Abs(x) == IF x < 0 THEN 0 - x ELSE x

Frac(n, d) ==
    LET g == GCD(Abs(n), d)
    IN  <<n \div g, d \div g>>

SetMin(S) == CHOOSE x \in S : \A y \in S : x <= y
SetMax(S) == CHOOSE x \in S : \A y \in S : y <= x

-----------------------------------------------------------------------------
(* PowerPlantID: [pp |-> plant id, inv |-> optional inverter id].           *)

PowerPlantID(pp, inv) == [pp |-> pp, inv |-> inv]

is_whole_power_plant(id) == id.inv = None

(* Mutant: the inverter is compared before the plant. *)
PowerPlantID_lt_inv_first(self, other) ==
    \/ self.inv = None
    \/ other.inv # None /\ self.inv[1] < other.inv[1]
    \/ self.inv = other.inv /\ self.pp < other.pp

PowerPlantID_lt(self, other) ==
    \/ self.pp < other.pp
    \/ /\ self.pp = other.pp
       /\ \/ self.inv = None
          \/ /\ other.inv # None
             /\ self.inv[1] < other.inv[1]

PowerPlantID_eq(self, other) ==
    self.pp = other.pp /\ self.inv = other.inv

(* __hash__: the hash of the pair; equal exactly when the pairs are equal.  *)
PowerPlantID_hash(self) == <<self.pp, self.inv>>

(* An identifier as a caller passes it: form "int" (bare plant id), "list" *)
(* (a 1- or 2-element sequence in v) or "obj" (a PowerPlantID in id).       *)
get_pp_id(arg) ==
    CASE arg.form = "obj"  -> arg.id
      [] arg.form = "list" ->
            PowerPlantID(arg.v[1], IF Len(arg.v) < 2 THEN Some(0 - 1) ELSE Some(arg.v[2]))
      [] OTHER             -> PowerPlantID(arg.v[1], Some(0 - 1))

-----------------------------------------------------------------------------
(* The bounded store.  Weather rows are hourly; src_dt = dt - age hours.    *)
(* summary and the two flags are always stored; temp stands for the float  *)
(* weather columns and may be NULL (the columns are nullable, tables.py).  *)

Hour(k) == date_earliest_date_time(1) + k * S_FREQUENCY

WRec(pp, dt, age, summary, temp, ip, ep) ==
    [pp |-> pp, dt |-> dt, age |-> age, src_dt |-> dt - age * S_FREQUENCY,
     summary |-> summary, temp |-> temp, ipolated |-> ip, epolated |-> ep]

WeatherPool ==
    { WRec(1, Hour(0), 0, "clear",  Some(10), FALSE, FALSE),
      WRec(1, Hour(1), 0, "rain",   Some(12), FALSE, FALSE),
      WRec(1, Hour(1), 1, "cloudy", None,     TRUE,  FALSE),
      WRec(1, Hour(1), 2, "fog",    Some(8),  FALSE, FALSE),
      WRec(1, Hour(2), 0, "clear",  Some(9),  FALSE, TRUE),
      WRec(2, Hour(0), 0, "snow",   Some(3),  FALSE, FALSE),
      WRec(2, Hour(1), 0, "wind",   Some(5),  TRUE,  FALSE) }

PRec(pp, inv, dt, power_ac, ip, ep) ==
    [pp |-> pp, inv |-> inv, dt |-> dt, power_ac |-> power_ac,
     ipolated |-> ip, epolated |-> ep]

PowerPool ==
    { PRec(1, 0 - 1, Hour(0), 100, FALSE, FALSE),
      PRec(1, 0 - 1, Hour(0) + P_FREQUENCY, 110, TRUE, FALSE),
      PRec(1, 0,     Hour(0) + P_FREQUENCY, 50, FALSE, FALSE) }

ERec(pp, dt, sun_altitude) ==
    [pp |-> pp, dt |-> dt, sun_altitude |-> sun_altitude]

ExogenousPool ==
    { ERec(1, Hour(0), 1),
      ERec(1, Hour(0) + P_FREQUENCY, 2) }

Stores ==
    { s \in [w : SUBSET WeatherPool, p : SUBSET PowerPool, e : SUBSET ExogenousPool] :
        Cardinality(s.w) + Cardinality(s.p) + Cardinality(s.e) <= MaxRecords }

-----------------------------------------------------------------------------
(* Frames.  A weather frame row carries every column of the default        *)
(* projection as an optional cell; pp / age are <<>> when the frame has no *)
(* such column.                                                            *)

WRow(r, has_pp, has_age) ==
    [pp       |-> IF has_pp THEN Some(r.pp) ELSE NaN,
     dt       |-> r.dt,
     age      |-> IF has_age THEN Some(r.age) ELSE NaN,
     src_dt   |-> <<r.src_dt, 1>>,
     summary  |-> Some(r.summary),
     temp     |-> IF r.temp = None THEN NaN ELSE <<r.temp[1], 1>>,
     ipolated |-> Some(r.ipolated),
     epolated |-> Some(r.epolated)]

NanRow(pp, dt) ==
    [pp |-> pp, dt |-> dt, age |-> NaN, src_dt |-> NaN, summary |-> NaN,
     temp |-> NaN, ipolated |-> NaN, epolated |-> NaN]

(* ORDER BY dt ASC, age ASC.  The statement leaves the order of two rows   *)
(* of different plants with equal (dt, age) to the store: tieAsc picks it. *)
RowBefore(a, b, tieAsc) ==
    \/ a.dt < b.dt
    \/ a.dt = b.dt /\ a.age < b.age
    \/ a.dt = b.dt /\ a.age = b.age /\ (IF tieAsc THEN a.pp < b.pp ELSE b.pp < a.pp)

RECURSIVE OrderBy(_, _)
OrderBy(S, tieAsc) ==
    IF S = {} THEN <<>>
    ELSE LET m == CHOOSE r \in S : \A q \in S : q = r \/ RowBefore(r, q, tieAsc)
         IN  <<m>> \o OrderBy(S \ {m}, tieAsc)

RECURSIVE SortInts(_)
SortInts(S) ==
    IF S = {} THEN <<>> ELSE <<SetMin(S)>> \o SortInts(S \ {SetMin(S)})

(* df.groupby("dt").first().reset_index(): one row per dt, ascending; each *)
(* column holds the first non-null entry of its group.                     *)
FirstNonNull(df, idxs, col) ==
    LET ok == {i \in idxs : df[i][col] # NaN}
    IN  IF ok = {} THEN NaN ELSE df[SetMin(ok)][col]

GroupByDtFirst(df) ==
    LET dts == SortInts({df[i].dt : i \in DOMAIN df})
    IN  [k \in DOMAIN dts |->
            LET idxs == {i \in DOMAIN df : df[i].dt = dts[k]}
            IN  [pp       |-> FirstNonNull(df, idxs, "pp"),
                 dt       |-> dts[k],
                 age      |-> NaN,
                 src_dt   |-> FirstNonNull(df, idxs, "src_dt"),
                 summary  |-> FirstNonNull(df, idxs, "summary"),
                 temp     |-> FirstNonNull(df, idxs, "temp"),
                 ipolated |-> FirstNonNull(df, idxs, "ipolated"),
                 epolated |-> FirstNonNull(df, idxs, "epolated")]]

-----------------------------------------------------------------------------
(* Smoothing: get_pp_weather, data.py lines 539-588.                       *)

FAdd(a, b) == Frac(a[1] * b[2] + b[1] * a[2], a[2] * b[2])
FSub(a, b) == Frac(a[1] * b[2] - b[1] * a[2], a[2] * b[2])
FMulInt(a, k) == Frac(a[1] * k, a[2])
FDivInt(a, k) == Frac(a[1], a[2] * k)

(* numpy.interp between two neighbouring known points, as pandas calls it  *)
(* for method="time": slope * (x - xa) + fa.                               *)
(* Mutant: the left neighbour is repeated instead of interpolating.        *)
np_interp_pad(xa, fa, xb, fb, x) == fa

np_interp(xa, fa, xb, fb, x) ==
    FAdd(FMulInt(FDivInt(FSub(fb, fa), xb - xa), x - xa), fa)

(* Lines 541-549: the row appended when dt_end is None.                    *)
AppendLast(df) ==
    LET last   == df[Len(df)]
        new_dt == freq_floor(date_latest_date_time(last.dt), P_FREQUENCY)
    IN  Append(df,
            [last EXCEPT
                !.dt = new_dt,
                !.src_dt = IF last.src_dt = NaN THEN NaN
                           ELSE FAdd(<<new_dt, 1>>, FSub(<<last.dt, 1>>, last.src_dt)),
                !.ipolated = Some(FALSE),
                !.epolated = Some(TRUE)])

(* pd.date_range(start, end, freq=P_FREQUENCY_S, closed="left")            *)
date_range(start, end) ==
    LET n == IF end > start THEN (end - start + P_FREQUENCY - 1) \div P_FREQUENCY ELSE 0
    IN  [i \in 1..n |-> start + P_FREQUENCY * (i - 1)]

(* Series.interpolate(method="time") of a float column over a frame whose  *)
(* index is increasing: known[t] is the cell at time t of the rows that    *)
(* carry a value; a leading gap stays NaN, a trailing gap repeats the last *)
(* value.                                                                  *)
InterpolateTime(times, value, t) ==
    IF t \in times THEN value[t]
    ELSE LET before == {u \in times : u < t}
             after  == {u \in times : u > t}
         IN  IF before = {} THEN NaN
             ELSE IF after = {} THEN value[SetMax(before)]
             ELSE LET a == SetMax(before)
                      b == SetMin(after)
                  IN  np_interp(a, value[a], b, value[b], t)

(* Lines 556-567: resample_df on the rows idf of one plant (or of the      *)
(* whole frame when it has no pp_id column).                               *)
resample_df(idf, res_dt_start, res_dt_end, pp) ==
    LET grid   == date_range(res_dt_start, res_dt_end + P_FREQUENCY)
        onGrid == {i \in DOMAIN idf :
                      /\ idf[i].dt >= res_dt_start
                      /\ idf[i].dt <= res_dt_end
                      /\ (idf[i].dt - res_dt_start) % P_FREQUENCY = 0}
        at     == [t \in {idf[i].dt : i \in onGrid} |->
                      idf[CHOOSE i \in onGrid : idf[i].dt = t]]
        times  == {t \in DOMAIN at : at[t].temp # NaN}
        temps  == [t \in times |-> at[t].temp]
    IN  [k \in DOMAIN grid |->
            LET t == grid[k]
            IN  IF t \in DOMAIN at
                THEN [at[t] EXCEPT !.pp = pp,
                                   !.temp = InterpolateTime(times, temps, t)]
                ELSE [NanRow(pp, t) EXCEPT !.temp = InterpolateTime(times, temps, t)]]

RECURSIVE Concat(_)
Concat(frames) ==
    IF frames = <<>> THEN <<>> ELSE Head(frames) \o Concat(Tail(frames))

(* Lines 569-572: df.groupby("pp_id").apply(resample_df).reset_index()     *)
(* concatenates the plants' frames in ascending pp_id.                     *)
Resample(df, has_pp, res_dt_start, res_dt_end) ==
    IF has_pp
    THEN LET pps == SortInts({df[i].pp[1] : i \in DOMAIN df})
         IN  Concat([g \in DOMAIN pps |->
                 resample_df(SelectSeq(df, LAMBDA r : r.pp = Some(pps[g])),
                             res_dt_start, res_dt_end, Some(pps[g]))])
    ELSE resample_df(df, res_dt_start, res_dt_end, NaN)

(* Lines 575-578: src_dt as a number, interpolated by time over the whole  *)
(* (concatenated) frame.  pandas sorts the known points by index value     *)
(* before numpy.interp and keeps the cells before the first known row NaN. *)
(* Known points of equal time carry equal src_dt in every frame the store  *)
(* family yields, so the CHOOSEs below are determined.                     *)
FixSrcDt(df) ==
    LET valid == {i \in DOMAIN df : df[i].src_dt # NaN}
        xs    == {df[i].dt : i \in valid}
        fp    == [x \in xs |-> df[CHOOSE i \in valid : df[i].dt = x].src_dt]
        first == SetMin(valid)
        Value(i) ==
            LET x == df[i].dt
            IN  IF i \in valid THEN df[i].src_dt
                ELSE IF i < first THEN NaN
                ELSE IF x \in xs THEN fp[x]
                ELSE IF x > SetMax(xs) THEN fp[SetMax(xs)]
                ELSE IF x < SetMin(xs) THEN fp[SetMin(xs)]
                ELSE LET a == SetMax({u \in xs : u < x})
                         b == SetMin({u \in xs : u > x})
                     IN  np_interp(a, fp[a], b, fp[b], x)
    IN  IF valid = {} THEN df
        ELSE [i \in DOMAIN df |-> [df[i] EXCEPT !.src_dt = Value(i)]]

(* Lines 579-584: Series.ffill over the whole frame, in row order.         *)
(* Mutant: the column is left as the reindexing produced it.               *)
FFill_none(df, col) == df

FFill(df, col) ==
    LET known == {i \in DOMAIN df : df[i][col] # NaN}
    IN  [i \in DOMAIN df |->
            LET prev == {j \in known : j <= i}
            IN  IF prev = {} THEN df[i] ELSE [df[i] EXCEPT ![col] = df[SetMax(prev)][col]]]

(* Lines 586-588. *)
(* Mutant: the closing row is kept.                                        *)
DropLast_keep(df) == df

DropLast(df) == SubSeq(df, 1, Len(df) - 1)

-----------------------------------------------------------------------------
(* Results.  rows is the returned frame in row order, index its index      *)
(* columns; queries counts the statements sent through conn.execute.       *)

Ok(rows, index) ==
    [status |-> "ok", error |-> "", rows |-> rows, index |-> index]

Raised(error) ==
    [status |-> "raised", error |-> error, rows |-> <<>>, index |-> <<>>]

(* get_pp_weather, data.py lines 450-592, with the default projection      *)
(* (columns = None).  tieAsc and emptyRaises are the two choices the code  *)
(* leaves to its environment: the store's order of ORDER BY ties, and      *)
(* whether groupby(...).apply calls resample_df on an empty frame (which   *)
(* then raises) or returns an empty frame, which the pandas release        *)
(* decides.                                                                *)
(* Mutant: the guard also fires when only one of the two modes is absent.  *)
SmoothUnsupported_either(interpolate_smooth, src_age, src_dt_max) ==
    interpolate_smooth /\ (src_age = None \/ src_dt_max = None)

SmoothUnsupported(interpolate_smooth, src_age, src_dt_max) ==
    interpolate_smooth /\ src_age = None /\ src_dt_max = None

get_pp_weather(pp_id, dt_start, dt_end, all_indices, src_age, src_dt_max, interpolate_smooth, tieAsc, emptyRaises) ==
    IF SmoothUnsupported(interpolate_smooth, src_age, src_dt_max)
    THEN [res |-> Raised("RuntimeError"), queries |-> 0, source |-> <<>>]
    ELSE
    LET has_pp  == pp_id = None \/ all_indices
        has_age == src_age = None /\ src_dt_max = None
        index   == (IF has_pp THEN <<"pp_id">> ELSE <<>>) \o <<"dt">>
                       \o (IF has_age THEN <<"age">> ELSE <<>>)
        start   == IF dt_start = None THEN None
                   ELSE IF interpolate_smooth
                        THEN Some(freq_floor(ConvertStart(dt_start), S_FREQUENCY))
                        ELSE Some(ConvertStart(dt_start))
        end     == IF dt_end = None THEN None
                   ELSE IF interpolate_smooth
                        THEN Some(freq_ceil(ConvertEnd(dt_end), S_FREQUENCY))
                        ELSE Some(ConvertEnd(dt_end))
        sel     == {r \in weather :
                      /\ pp_id = None \/ r.pp = get_pp_id(pp_id[1]).pp
                      /\ start = None \/ r.dt >= start[1]
                      /\ end = None \/ r.dt <= end[1]
                      /\ src_age = None \/ r.age = src_age[1]
                      /\ src_dt_max = None \/ r.src_dt <= src_dt_max[1]}
        data    == OrderBy(sel, tieAsc)
        fetched == [i \in DOMAIN data |-> WRow(data[i], has_pp, has_age)]
        df      == IF src_dt_max # None THEN GroupByDtFirst(fetched) ELSE fetched
    IN  IF ~interpolate_smooth
        THEN [res |-> Ok(df, index), queries |-> 1, source |-> <<>>]
        ELSE IF df = <<>>
        THEN IF has_pp /\ end # None /\ ~emptyRaises
             THEN [res |-> Ok(<<>>, index), queries |-> 1, source |-> <<>>]
             ELSE [res |-> Raised("TypeError"), queries |-> 1, source |-> <<>>]
        ELSE
        LET ext         == IF end = None THEN AppendLast(df) ELSE df
            res_dt_start == IF start # None THEN start[1]
                            ELSE SetMin({ext[i].dt : i \in DOMAIN ext})
            res_dt_end   == IF end # None THEN end[1]
                            ELSE SetMax({ext[i].dt : i \in DOMAIN ext})
            resampled   == Resample(ext, has_pp, res_dt_start, res_dt_end)
            fixed       == FFill(FFill(FFill(FixSrcDt(resampled),
                                   "summary"), "ipolated"), "epolated")
            trimmed     == IF end # None THEN DropLast(fixed) ELSE fixed
        IN  [res |-> Ok(trimmed, index), queries |-> 1, source |-> ext]

(* ORDER BY dt of the power / exogenous statements; ties as the store      *)
(* leaves them.                                                            *)
KeyBefore(a, b, tieAsc) ==
    \/ a.dt < b.dt
    \/ /\ a.dt = b.dt
       /\ IF tieAsc THEN a.pp < b.pp \/ (a.pp = b.pp /\ a.inv < b.inv)
                    ELSE b.pp < a.pp \/ (a.pp = b.pp /\ b.inv < a.inv)

RECURSIVE OrderByDt(_, _)
OrderByDt(S, tieAsc) ==
    IF S = {} THEN <<>>
    ELSE LET m == CHOOSE r \in S : \A q \in S : q = r \/ KeyBefore(r, q, tieAsc)
         IN  <<m>> \o OrderByDt(S \ {m}, tieAsc)

(* get_pp_power, data.py lines 383-448.  Line 414 calls                    *)
(* pp_id.is_whole_power_plant() on the argument as passed, before          *)
(* get_pp_id: an int or a list has no such method.                         *)
get_pp_power(pp_id, dt_start, dt_end, all_indices, tieAsc) ==
    IF pp_id # None /\ ~all_indices /\ pp_id[1].form # "obj"
    THEN [res |-> Raised("AttributeError"), queries |-> 0]
    ELSE
    LET has_pp  == pp_id = None \/ all_indices
        has_inv == has_pp \/ is_whole_power_plant(pp_id[1].id)
        index   == (IF has_pp THEN <<"pp_id">> ELSE <<>>)
                       \o (IF has_inv THEN <<"inv_id">> ELSE <<>>) \o <<"dt">>
        id      == IF pp_id = None THEN PowerPlantID(0, None) ELSE get_pp_id(pp_id[1])
        sel     == {r \in power :
                      /\ pp_id = None \/ r.pp = id.pp
                      /\ pp_id = None \/ is_whole_power_plant(id) \/ r.inv = id.inv[1]
                      /\ dt_start = None \/ r.dt >= ConvertStart(dt_start)
                      /\ dt_end = None \/ r.dt <= ConvertEnd(dt_end)}
        data    == OrderByDt(sel, tieAsc)
    IN  [res |-> Ok([i \in DOMAIN data |->
                        [pp       |-> IF has_pp THEN Some(data[i].pp) ELSE NaN,
                         inv      |-> IF has_inv THEN Some(data[i].inv) ELSE NaN,
                         dt       |-> data[i].dt,
                         power_ac |-> data[i].power_ac,
                         ipolated |-> data[i].ipolated,
                         epolated |-> data[i].epolated]], index),
         queries |-> 1]

(* get_pp_exogenous, data.py lines 594-654. *)
get_pp_exogenous(pp_id, dt_start, dt_end, all_indices, tieAsc) ==
    LET has_pp == pp_id = None \/ all_indices
        index  == (IF has_pp THEN <<"pp_id">> ELSE <<>>) \o <<"dt">>
        sel    == {r \in exogenous :
                      /\ pp_id = None \/ r.pp = get_pp_id(pp_id[1]).pp
                      /\ dt_start = None \/ r.dt >= ConvertStart(dt_start)
                      /\ dt_end = None \/ r.dt <= ConvertEnd(dt_end)}
        data   == OrderByDt({[pp |-> r.pp, inv |-> 0, dt |-> r.dt,
                              sun_altitude |-> r.sun_altitude] : r \in sel}, tieAsc)
    IN  [res |-> Ok([i \in DOMAIN data |->
                        [pp           |-> IF has_pp THEN Some(data[i].pp) ELSE NaN,
                         dt           |-> data[i].dt,
                         sun_altitude |-> data[i].sun_altitude]], index),
         queries |-> 1]

-----------------------------------------------------------------------------
(* Arguments the operations are invoked with.                              *)

IntArg(p) == [form |-> "int", v |-> <<p>>]
ObjArg(id) == [form |-> "obj", id |-> id]
ListArg(v) == [form |-> "list", v |-> v]

(* <<pp_id, all_indices>> *)
WeatherTargets ==
    { <<None, FALSE>>, <<Some(IntArg(1)), FALSE>>, <<Some(IntArg(1)), TRUE>>,
      <<Some(ObjArg(PowerPlantID(2, None))), FALSE>> }

PowerTargets ==
    { <<None, FALSE>>, <<Some(IntArg(1)), FALSE>>, <<Some(IntArg(1)), TRUE>>,
      <<Some(ObjArg(PowerPlantID(1, None))), FALSE>>,
      <<Some(ObjArg(PowerPlantID(1, Some(0)))), FALSE>> }

(* <<dt_start, dt_end>> *)
Windows ==
    { <<None, None>>,
      <<<<"datetime", Hour(0)>>, <<"datetime", Hour(1)>>>>,
      <<<<"datetime", Hour(0)>>, <<"datetime", Hour(2)>>>>,
      <<<<"datetime", Hour(0) + P_FREQUENCY>>, <<"datetime", Hour(1) - P_FREQUENCY>>>>,
      <<<<"date", 1>>, <<"date", 1>>>>,
      <<None, <<"datetime", Hour(1)>>>>,
      <<<<"datetime", Hour(0)>>, None>> }

(* <<src_age, src_dt_max>> *)
Selections ==
    { <<None, None>>, <<Some(0), None>>, <<Some(1), None>>,
      <<None, Some(Hour(0))>>, <<None, Some(Hour(1))>> }

-----------------------------------------------------------------------------
(* The state machine: a read-only store (bulk-loaded before the core runs) *)
(* and one action per fetch, applied to the idle state.                    *)

Idle == call.op = "none"

(* The environment's choices matter only to a fetch across all plants.     *)
TieOrders(pp_id) == IF pp_id = None THEN BOOLEAN ELSE {TRUE}

Init ==
    /\ \E s \in Stores :
          /\ weather = s.w
          /\ power = s.p
          /\ exogenous = s.e
    /\ call = [op |-> "none"]
    /\ result = Ok(<<>>, <<>>)
    /\ queries = 0
    /\ source = <<>>
    /\ meta = {}
    /\ files = <<>>
    /\ caller = <<>>

GetPpWeather ==
    /\ Idle
    /\ \E tg \in WeatherTargets, win \in Windows, sel \in Selections, smooth \in BOOLEAN :
       \E tieAsc \in TieOrders(tg[1]),
          emptyRaises \in (IF smooth /\ win[2] # None THEN TieOrders(tg[1]) ELSE {TRUE}) :
        LET out == get_pp_weather(tg[1], win[1], win[2], tg[2],
                                  sel[1], sel[2], smooth, tieAsc, emptyRaises)
        IN  /\ call' = [op |-> "get_pp_weather", pp_id |-> tg[1],
                        dt_start |-> win[1], dt_end |-> win[2],
                        all_indices |-> tg[2], src_age |-> sel[1],
                        src_dt_max |-> sel[2], interpolate_smooth |-> smooth]
            /\ result' = out.res
            /\ queries' = out.queries
            /\ source' = out.source
            /\ UNCHANGED <<weather, power, exogenous, meta, files, caller>>

GetPpPower ==
    /\ Idle
    /\ \E tg \in PowerTargets, win \in Windows : \E tieAsc \in TieOrders(tg[1]) :
        LET out == get_pp_power(tg[1], win[1], win[2], tg[2], tieAsc)
        IN  /\ call' = [op |-> "get_pp_power", pp_id |-> tg[1],
                        dt_start |-> win[1], dt_end |-> win[2],
                        all_indices |-> tg[2]]
            /\ result' = out.res
            /\ queries' = out.queries
            /\ source' = <<>>
            /\ UNCHANGED <<weather, power, exogenous, meta, files, caller>>

GetPpExogenous ==
    /\ Idle
    /\ \E tg \in WeatherTargets, win \in Windows : \E tieAsc \in TieOrders(tg[1]) :
        LET out == get_pp_exogenous(tg[1], win[1], win[2], tg[2], tieAsc)
        IN  /\ call' = [op |-> "get_pp_exogenous", pp_id |-> tg[1],
                        dt_start |-> win[1], dt_end |-> win[2],
                        all_indices |-> tg[2]]
            /\ result' = out.res
            /\ queries' = out.queries
            /\ source' = <<>>
            /\ UNCHANGED <<weather, power, exogenous, meta, files, caller>>

Next == GetPpWeather \/ GetPpPower \/ GetPpExogenous

Spec == Init /\ [][Next]_vars

-----------------------------------------------------------------------------
(* Identities on their own: every pair of PowerPlantID values is compared. *)

MaxPlantId == 3
MaxInvId == 1

Identities ==
    { PowerPlantID(pp, inv) :
        pp \in 1..MaxPlantId,
        inv \in {None, Some(0 - 1)} \cup {Some(k) : k \in 0..MaxInvId} }

InitId ==
    /\ weather = {}
    /\ power = {}
    /\ exogenous = {}
    /\ call = [op |-> "none"]
    /\ result = Ok(<<>>, <<>>)
    /\ queries = 0
    /\ source = <<>>
    /\ meta = {}
    /\ files = <<>>
    /\ caller = <<>>

Compare ==
    /\ Idle
    /\ \E x \in Identities, y \in Identities :
        /\ call' = [op |-> "lt", self |-> x, other |-> y]
        /\ result' = [status |-> "ok", error |-> "", rows |-> <<>>, index |-> <<>>,
                      value |-> PowerPlantID_lt(x, y)]
        /\ UNCHANGED <<weather, power, exogenous, meta, files, caller, queries, source>>

(* Identifiers in every form get_pp_id accepts. *)
Identifiers ==
    {IntArg(p) : p \in 1..MaxPlantId}
        \cup {ListArg(<<p>>) : p \in 1..MaxPlantId}
        \cup {ListArg(<<p, i>>) : p \in 1..MaxPlantId, i \in 0..MaxInvId}
        \cup {ObjArg(id) : id \in Identities}

Resolve ==
    /\ Idle
    /\ \E arg \in Identifiers :
        /\ call' = [op |-> "get_pp_id", arg |-> arg]
        /\ result' = [status |-> "ok", error |-> "", rows |-> <<>>, index |-> <<>>,
                      value |-> get_pp_id(arg)]
        /\ UNCHANGED <<weather, power, exogenous, meta, files, caller, queries, source>>

NextId == Compare \/ Resolve

SpecId == InitId /\ [][NextId]_vars

-----------------------------------------------------------------------------
(* SolarDBAssembler.prepare_history, assemble.py lines 49-110, over a      *)
(* store of power records around the start instants it is called with.     *)

MaxHistoryRecords == 3
MaxCount == 3

HistoryPool ==
    { PRec(1, 0 - 1, Hour(0) - 2 * P_FREQUENCY, 90,  FALSE, FALSE),
      PRec(1, 0 - 1, Hour(0) - P_FREQUENCY,     95,  TRUE,  FALSE),
      PRec(1, 0 - 1, Hour(0),                   100, FALSE, FALSE),
      PRec(1, 0 - 1, Hour(0) + P_FREQUENCY,     110, FALSE, FALSE),
      PRec(1, 0,     Hour(0) - P_FREQUENCY,     45,  FALSE, FALSE),
      PRec(1, 0,     Hour(0),                   50,  FALSE, TRUE),
      PRec(2, 0 - 1, Hour(0) - P_FREQUENCY,     70,  FALSE, FALSE) }

HistoryStores == {S \in SUBSET HistoryPool : Cardinality(S) <= MaxHistoryRecords}

(* _convert_date_time, assemble.py lines 32-35. *)
convert_date_time(dt) ==
    IF dt[1] = "datetime" THEN dt[2] ELSE date_earliest_date_time(dt[2])

(* _prepare_frame_index, assemble.py lines 37-47, at the primary frequency. *)
prepare_frame_index(dt_start, dt_end) == date_range(dt_start, dt_end)

(* df.iloc[:n] *)
ILocHead(df, n) == SubSeq(df, 1, IF n < Len(df) THEN n ELSE Len(df))

HistoryIndex == <<"pp_id", "inv_id", "dt">>

(* Lines 81-90: the first history_cnt rows of the doubled window take the  *)
(* frame index as their dt; set_index raises on a length mismatch.         *)
history_fallback_frame(power_df, frame_index, history_cnt) ==
    LET head == ILocHead(power_df, history_cnt)
    IN  IF Len(head) # Len(frame_index)
        THEN Raised("ValueError")
        ELSE Ok([i \in DOMAIN head |-> [head[i] EXCEPT !.dt = frame_index[i]]],
                HistoryIndex)

(* Lines 97-110: the first history_cnt rows reindexed by the frame index   *)
(* (which raises on duplicate dt labels), gaps filled with 0 / False /     *)
(* True, and the identity columns assigned from pp_id.                     *)
history_zero_frame(power_df, frame_index, history_cnt, pp_id) ==
    LET head == ILocHead(power_df, history_cnt)
        inv  == IF pp_id.inv # None THEN pp_id.inv ELSE Some(0 - 1)
    IN  IF \E i \in DOMAIN head, j \in DOMAIN head : i # j /\ head[i].dt = head[j].dt
        THEN Raised("ValueError")
        ELSE Ok([k \in DOMAIN frame_index |->
                    LET t    == frame_index[k]
                        here == {i \in DOMAIN head : head[i].dt = t}
                    IN  IF here = {}
                        THEN [pp |-> Some(pp_id.pp), inv |-> inv, dt |-> t,
                              power_ac |-> 0, ipolated |-> FALSE, epolated |-> TRUE]
                        ELSE [head[CHOOSE i \in here : TRUE] EXCEPT
                                 !.pp = Some(pp_id.pp), !.inv = inv]],
                HistoryIndex)

prepare_history(pp_id_arg, dt_start_arg, history_cnt, history_fallback, tieAsc) ==
    LET pp_id       == get_pp_id(pp_id_arg)
        dt_start    == convert_date_time(dt_start_arg)
        dt_alt_start == dt_start - P_FREQUENCY * history_cnt
        dt_alt_end  == dt_start
        dt_ealt_end == dt_start + P_FREQUENCY * history_cnt
        frame_index == prepare_frame_index(dt_alt_start, dt_alt_end)
        fetch_end   == IF history_fallback THEN dt_ealt_end ELSE dt_alt_end
        fetched     == get_pp_power(Some(ObjArg(pp_id)), <<"datetime", dt_alt_start>>,
                                    <<"datetime", fetch_end>>, TRUE, tieAsc)
        power_df    == fetched.res.rows
    IN  [res     |-> IF history_fallback
                     THEN history_fallback_frame(power_df, frame_index, history_cnt)
                     ELSE history_zero_frame(power_df, frame_index, history_cnt, pp_id),
         queries |-> fetched.queries]

HistoryTargets ==
    { IntArg(1), ObjArg(PowerPlantID(1, None)), ObjArg(PowerPlantID(1, Some(0))) }

HistoryStarts ==
    { <<"datetime", Hour(0)>>, <<"datetime", Hour(0) + P_FREQUENCY>>, <<"date", 1>> }

InitHistory ==
    /\ weather = {}
    /\ power \in HistoryStores
    /\ exogenous = {}
    /\ call = [op |-> "none"]
    /\ result = Ok(<<>>, <<>>)
    /\ queries = 0
    /\ source = <<>>
    /\ meta = {}
    /\ files = <<>>
    /\ caller = <<>>

PrepareHistory ==
    /\ Idle
    /\ \E tg \in HistoryTargets, st \in HistoryStarts, cnt \in 0..MaxCount, fb \in BOOLEAN :
       \E tieAsc \in (IF is_whole_power_plant(get_pp_id(tg)) THEN BOOLEAN ELSE {TRUE}) :
        LET out == prepare_history(tg, st, cnt, fb, tieAsc)
        IN  /\ call' = [op |-> "prepare_history", pp_id |-> tg, dt_start |-> st,
                        history_cnt |-> cnt, history_fallback |-> fb]
            /\ result' = out.res
            /\ queries' = out.queries
            /\ source' = <<>>
            /\ UNCHANGED <<weather, power, exogenous, meta, files, caller>>

NextHistory == PrepareHistory

SpecHistory == InitHistory /\ [][NextHistory]_vars

-----------------------------------------------------------------------------
(* SolarDBAssembler.prepare_weather, assemble.py lines 112-170, over a     *)
(* store of weather anchors and exogenous records.                         *)

MaxAnchors == 2

AssembleExogenousPool ==
    { ERec(1, Hour(0), 1),
      ERec(1, Hour(0) + P_FREQUENCY, 2),
      ERec(1, Hour(0) + 2 * P_FREQUENCY, 3),
      ERec(1, Hour(1), 4) }

AssembleStores ==
    { s \in [w : SUBSET WeatherPool, e : SUBSET AssembleExogenousPool] :
        Cardinality(s.w) <= MaxAnchors }

KnownSchemes == {"measured", "forecast", "realistic"}

(* Lines 143-146 and 158-159: the two configuration errors.                *)
(* Mutant: an unknown scheme is not rejected.                              *)
scheme_error_forecast_only(weather_scheme, forecast_delta) ==
    weather_scheme = "forecast" /\ forecast_delta = None

scheme_error(weather_scheme, forecast_delta) ==
    \/ weather_scheme = "forecast" /\ forecast_delta = None
    \/ weather_scheme \notin KnownSchemes

(* Lines 137-157: <<src_age, src_dt_max>> of the scheme's fetch.           *)
scheme_selection(weather_scheme, forecast_delta, dt_start) ==
    IF weather_scheme = "measured" THEN <<Some(0), None>>
    ELSE IF weather_scheme = "forecast" THEN <<forecast_delta, None>>
    ELSE <<None, Some(dt_start)>>

(* Lines 166-170: weather_df.merge(exogenous_df, left_index=True,          *)
(* right_index=True) keeps the weather rows whose (pp_id, dt) the          *)
(* exogenous frame holds, in the weather frame's order, and inv_id is      *)
(* assigned from pp_id.                                                    *)
merge_frames(weather_df, exogenous_df, pp_id) ==
    LET Match(w) == {j \in DOMAIN exogenous_df :
                        exogenous_df[j].pp = w.pp /\ exogenous_df[j].dt = w.dt}
        matched  == SelectSeq(weather_df, LAMBDA w : Match(w) # {})
        inv      == IF pp_id.inv # None THEN pp_id.inv ELSE Some(0 - 1)
    IN  [i \in DOMAIN matched |->
            [pp |-> matched[i].pp, inv |-> inv, dt |-> matched[i].dt,
             src_dt |-> matched[i].src_dt, summary |-> matched[i].summary,
             temp |-> matched[i].temp, ipolated |-> matched[i].ipolated,
             epolated |-> matched[i].epolated,
             sun_altitude |->
                 exogenous_df[CHOOSE j \in Match(matched[i]) : TRUE].sun_altitude]]

(* Lines 161-170: an exception of the weather fetch ends the call; else   *)
(* the exogenous fetch follows and the two frames are merged.              *)
prepare_weather_merge(wth, exo, pp_id) ==
    IF wth.res.status = "raised"
    THEN [res |-> wth.res, queries |-> wth.queries, source |-> wth.source]
    ELSE [res     |-> Ok(merge_frames(wth.res.rows, exo.res.rows, pp_id), HistoryIndex),
          queries |-> wth.queries + exo.queries,
          source  |-> wth.source]

(* Lines 137-164: the two fetches of a valid scheme.                       *)
prepare_weather_fetch(pp_id, dt_start, dt_end, sel, emptyRaises) ==
    prepare_weather_merge(
        get_pp_weather(Some(ObjArg(pp_id)), <<"datetime", dt_start>>,
                       <<"datetime", dt_end>>, TRUE, sel[1], sel[2], TRUE, TRUE, emptyRaises),
        get_pp_exogenous(Some(ObjArg(pp_id)), <<"datetime", dt_start>>,
                         <<"datetime", dt_end>>, TRUE, TRUE),
        pp_id)

prepare_weather(pp_id_arg, dt_start_arg, dt_end_arg, weather_scheme, forecast_delta, emptyRaises) ==
    IF scheme_error(weather_scheme, forecast_delta)
    THEN [res |-> Raised("RuntimeError"), queries |-> 0, source |-> <<>>]
    ELSE prepare_weather_fetch(
             get_pp_id(pp_id_arg), convert_date_time(dt_start_arg),
             convert_date_time(dt_end_arg),
             scheme_selection(weather_scheme, forecast_delta,
                              convert_date_time(dt_start_arg)),
             emptyRaises)

AssembleTargets == { IntArg(1), ObjArg(PowerPlantID(1, Some(0))) }

(* <<dt_start, dt_end>> *)
AssembleWindows ==
    { <<<<"datetime", Hour(0)>>, <<"datetime", Hour(0) + 2 * P_FREQUENCY>>>>,
      <<<<"datetime", Hour(0) + P_FREQUENCY>>, <<"datetime", Hour(0) + 2 * P_FREQUENCY>>>>,
      <<<<"datetime", Hour(0)>>, <<"datetime", Hour(1)>>>>,
      <<<<"datetime", Hour(0)>>, <<"datetime", Hour(2)>>>>,
      <<<<"date", 1>>, <<"datetime", Hour(1)>>>> }

(* <<weather_scheme, forecast_delta>> *)
AssembleSchemes ==
    { <<"measured", None>>, <<"forecast", None>>, <<"forecast", Some(1)>>,
      <<"realistic", None>>, <<"climate", None>> }

InitAssemble ==
    /\ \E s \in AssembleStores :
          /\ weather = s.w
          /\ exogenous = s.e
    /\ power = {}
    /\ call = [op |-> "none"]
    /\ result = Ok(<<>>, <<>>)
    /\ queries = 0
    /\ source = <<>>
    /\ meta = {}
    /\ files = <<>>
    /\ caller = <<>>

PrepareWeather ==
    /\ Idle
    /\ \E tg \in AssembleTargets, win \in AssembleWindows, sch \in AssembleSchemes :
       \E emptyRaises \in (IF scheme_error(sch[1], sch[2]) THEN {TRUE} ELSE BOOLEAN) :
        LET out == prepare_weather(tg, win[1], win[2], sch[1], sch[2], emptyRaises)
        IN  /\ call' = [op |-> "prepare_weather", pp_id |-> tg,
                        dt_start |-> win[1], dt_end |-> win[2],
                        weather_scheme |-> sch[1], forecast_delta |-> sch[2]]
            /\ result' = out.res
            /\ queries' = out.queries
            /\ source' = out.source
            /\ UNCHANGED <<weather, power, exogenous, meta, files, caller>>

NextAssemble == PrepareWeather

SpecAssemble == InitAssemble /\ [][NextAssemble]_vars

-----------------------------------------------------------------------------
(* SolarDBEvaluator.evaluate_prediction, evaluate.py lines 153-254.        *)
(* A frame handed in by the caller: levels says whether its index carries  *)
(* pp_id and inv_id besides dt, column names its value column, and each    *)
(* row holds its index cells and an optional value.                        *)

MaxEvalRecords == 2

Frame(levels, column, rows) == [levels |-> levels, column |-> column, rows |-> rows]

FRow(pp, inv, dt, value) == [pp |-> pp, inv |-> inv, dt |-> dt, value |-> value]

(* pd.DataFrame(), the default of history_df and weather_df. *)
EmptyFrame == Frame(FALSE, "", <<>>)

(* reset_index().assign(pp_id=..., inv_id=...).set_index([...]), lines     *)
(* 188-191 and 197-200, for pp_id None or a PowerPlantID.                  *)
assign_identity(rows, pp_id) ==
    LET pp  == IF pp_id = None THEN 0 ELSE pp_id[1].id.pp
        inv == IF pp_id = None THEN 0
               ELSE IF is_whole_power_plant(pp_id[1].id) THEN 0 - 1
               ELSE pp_id[1].id.inv[1]
    IN  [i \in DOMAIN rows |-> [rows[i] EXCEPT !.pp = Some(pp), !.inv = Some(inv)]]

(* index.get_level_values("dt").min() / .max() *)
frame_span(rows) ==
    <<SetMin({rows[i].dt : i \in DOMAIN rows}), SetMax({rows[i].dt : i \in DOMAIN rows})>>

(* Line 212: weather_df.set_index(prediction_df.index). *)
set_index_from(weather_rows, prediction_rows) ==
    [i \in DOMAIN weather_rows |->
        [weather_rows[i] EXCEPT !.pp = prediction_rows[i].pp,
                                !.inv = prediction_rows[i].inv,
                                !.dt = prediction_rows[i].dt]]

(* Lines 229-236: the weather frame's span against the prediction's.       *)
weather_span_differs(prediction_rows, weather_rows) ==
    frame_span(prediction_rows) # frame_span(weather_rows)

(* (difference ** 2.0).mean() of pred_df - ground_df, which pandas aligns  *)
(* on the (pp_id, inv_id, dt) index; unmatched labels give NaN and are     *)
(* skipped by mean().                                                      *)
RECURSIVE SumSeq(_)
SumSeq(q) == IF q = <<>> THEN 0 ELSE Head(q) + SumSeq(Tail(q))

mean_squared_difference(pred, ground) ==
    LET Key(r) == <<r.pp, r.inv, r.dt>>
        pairs  == {<<i, j>> \in (DOMAIN pred) \X (DOMAIN ground) :
                      Key(pred[i]) = Key(ground[j])}
        sq     == [i \in DOMAIN pred |->
                      IF \E j \in DOMAIN ground : <<i, j>> \in pairs
                      THEN LET j == CHOOSE j \in DOMAIN ground : <<i, j>> \in pairs
                           IN  (pred[i].value[1] - ground[j].value[1])
                                   * (pred[i].value[1] - ground[j].value[1])
                      ELSE 0]
    IN  IF pairs = {} THEN NaN ELSE Frac(SumSeq(sq), Cardinality(pairs))

(* _evaluate_power, lines 33-85: the ground truth of pp_id over            *)
(* [dt_start, dt_end], the frame's power column, and the statistics of     *)
(* the two; r2_score and pearsonr raise ValueError on samples of unequal   *)
(* length or of fewer than two values.                                     *)
power_statistics(fetched, power_rows, dt_start, dt_end, fallback) ==
    LET stored  == [i \in DOMAIN fetched.res.rows |->
                       FRow(fetched.res.rows[i].pp, fetched.res.rows[i].inv,
                            fetched.res.rows[i].dt, Some(fetched.res.rows[i].power_ac))]
        ground  == IF stored = <<>> /\ fallback THEN power_rows ELSE stored
    IN  IF Len(ground) # Len(power_rows) \/ Len(power_rows) < 2
        THEN [status |-> "raised", error |-> "ValueError", queries |-> 1]
        ELSE [status |-> "ok", error |-> "", queries |-> 1,
              stats |-> [pred   |-> power_rows,
                         ground |-> ground,
                         span   |-> <<dt_start, dt_end>>,
                         mse    |-> mean_squared_difference(power_rows, ground)]]

evaluate_power(pp_id, power_rows, dt_start, dt_end, fallback) ==
    power_statistics(
        get_pp_power(Some(ObjArg(pp_id)), <<"datetime", dt_start>>,
                     <<"datetime", dt_end>>, TRUE, TRUE),
        power_rows, dt_start, dt_end, fallback)

(* _evaluate_history, lines 87-108: the span is the history frame's own.   *)
evaluate_history(pp_id, history_rows, dt_start, dt_end) ==
    evaluate_power(pp_id, history_rows, frame_span(history_rows)[1],
                   frame_span(history_rows)[2], TRUE)

(* _evaluate_weather, lines 110-151: the measured, smoothed weather of     *)
(* pp_id over [dt_start, dt_end] against the frame's features; the         *)
(* statistics are functions of the two frames kept here.                   *)
weather_statistics(fetched, weather_rows, dt_start, dt_end) ==
    IF fetched.res.status = "raised"
    THEN [status |-> "raised", error |-> fetched.res.error,
          queries |-> fetched.queries]
    ELSE [status |-> "ok", error |-> "", queries |-> fetched.queries,
          stats |-> [pred   |-> weather_rows,
                     ground |-> fetched.res.rows,
                     span   |-> <<dt_start, dt_end>>,
                     mse    |-> NaN]]

evaluate_weather(pp_id, weather_rows, dt_start, dt_end, emptyRaises) ==
    weather_statistics(
        get_pp_weather(Some(ObjArg(pp_id)), <<"datetime", dt_start>>,
                       <<"datetime", dt_end>>, TRUE, Some(0), None, TRUE, TRUE, emptyRaises),
        weather_rows, dt_start, dt_end)

NoStats == [pred |-> <<>>, ground |-> <<>>, span |-> <<>>, mse |-> NaN]

Failed(error, sent) ==
    [res |-> Raised(error), queries |-> sent]

(* Lines 238-254: the three comparisons, in the order the dict names them. *)
Skipped == [status |-> "ok", error |-> "", queries |-> 0, stats |-> NoStats]

(* The dict of lines 238-252 is built left to right: the first comparison  *)
(* that raises ends the call, later ones are not made.                     *)
statistics(pw, wt, hs) ==
    IF pw.status = "raised" THEN Failed(pw.error, pw.queries)
    ELSE IF wt.status = "raised" THEN Failed(wt.error, pw.queries + wt.queries)
    ELSE IF hs.status = "raised"
    THEN Failed(hs.error, pw.queries + wt.queries + hs.queries)
    ELSE [res     |-> [status |-> "ok", error |-> "", rows |-> <<>>, index |-> <<>>,
                       stats |-> [power |-> pw.stats, weather |-> wt.stats,
                                  history |-> hs.stats]],
          queries |-> pw.queries + wt.queries + hs.queries]

evaluate_span(pp_id, prediction_rows, history_rows, weather_rows, has_history, has_weather, emptyRaises, span) ==
    statistics(
        evaluate_power(pp_id, prediction_rows, span[1], span[2], FALSE),
        IF has_weather
        THEN evaluate_weather(pp_id, weather_rows, span[1], span[2], emptyRaises)
        ELSE Skipped,
        IF has_history
        THEN evaluate_history(pp_id, history_rows, span[1], span[2])
        ELSE Skipped)

evaluate_all(pp_id, prediction_rows, history_rows, weather_rows, has_history, has_weather, emptyRaises) ==
    evaluate_span(pp_id, prediction_rows, history_rows, weather_rows, has_history,
                  has_weather, emptyRaises, frame_span(prediction_rows))

(* Lines 181-236: the checks, in the order the code makes them.  pp_id is  *)
(* used through its attributes, so an identifier that is no PowerPlantID   *)
(* raises AttributeError where the code first touches it.                  *)
evaluate_prediction(prediction_df, prediction_type, history_df, weather_df, pp_id, emptyRaises) ==
    LET has_history == Len(history_df.rows) > 0
        has_weather == Len(weather_df.rows) > 0
        unresolved  == pp_id # None /\ pp_id[1].form # "obj"
    IN  IF ~prediction_df.levels /\ pp_id = None /\ Len(prediction_df.rows) > 0
        THEN Failed("RuntimeError", 0)
        ELSE IF ~prediction_df.levels /\ unresolved
        THEN Failed("AttributeError", 0)
        ELSE
        LET prediction == IF prediction_df.levels THEN prediction_df
                          ELSE Frame(TRUE, prediction_df.column,
                                     assign_identity(prediction_df.rows, pp_id))
        IN  IF ~history_df.levels /\ pp_id = None /\ has_history
            THEN Failed("RuntimeError", 0)
            ELSE IF ~history_df.levels /\ unresolved
            THEN Failed("AttributeError", 0)
            ELSE
            LET history == IF history_df.levels THEN history_df
                           ELSE Frame(TRUE, prediction.column,
                                      assign_identity(prediction.rows, pp_id))
                hcolumn == IF history.column = prediction_type THEN "power"
                           ELSE history.column
                pp_ids  == {prediction.rows[i].pp : i \in DOMAIN prediction.rows}
                inv_ids == {prediction.rows[i].inv : i \in DOMAIN prediction.rows}
            IN  IF prediction.column # "power"
                THEN Failed("RuntimeError", 0)
                ELSE IF \E i \in DOMAIN prediction.rows : prediction.rows[i].value = NaN
                THEN Failed("RuntimeError", 0)
                ELSE IF has_weather /\ Len(weather_df.rows) # Len(prediction.rows)
                THEN Failed("RuntimeError", 0)
                ELSE IF has_history /\ hcolumn # "power"
                THEN Failed("RuntimeError", 0)
                ELSE IF Cardinality(pp_ids) # 1 \/ Cardinality(inv_ids) # 1
                THEN Failed("RuntimeError", 0)
                ELSE
                LET reindexed == IF has_weather
                               THEN set_index_from(weather_df.rows, prediction.rows)
                               ELSE weather_df.rows
                    id      == PowerPlantID(prediction.rows[1].pp[1],
                                            prediction.rows[1].inv)
                IN  IF has_weather /\ weather_span_differs(prediction.rows, reindexed)
                    THEN Failed("RuntimeError", 0)
                    ELSE evaluate_all(id, prediction.rows, history.rows, reindexed,
                                      has_history, has_weather, emptyRaises)

(* Lines 181-218, the caller's objects.  prediction_df and weather_df are  *)
(* only rebound to new frames.  history_df still names the caller's frame  *)
(* when that frame carries the identity levels, and line 216 renames its   *)
(* prediction_type column to "power" in place once the checks of lines     *)
(* 184-211 have passed.                                                    *)
reaches_history_rename(prediction_df, weather_df, pp_id) ==
    /\ prediction_df.levels \/ pp_id # None \/ Len(prediction_df.rows) = 0
    /\ prediction_df.levels \/ pp_id = None \/ pp_id[1].form = "obj"
    /\ prediction_df.column = "power"
    /\ \A i \in DOMAIN prediction_df.rows : prediction_df.rows[i].value # NaN
    /\ Len(weather_df.rows) = 0 \/ Len(weather_df.rows) = Len(prediction_df.rows)

caller_frames(prediction_df, prediction_type, history_df, weather_df, pp_id) ==
    [prediction_df |-> prediction_df,
     history_df    |-> IF /\ history_df.levels
                          /\ Len(history_df.rows) > 0
                          /\ history_df.column = prediction_type
                          /\ reaches_history_rename(prediction_df, weather_df, pp_id)
                       THEN Frame(TRUE, "power", history_df.rows)
                       ELSE history_df,
     weather_df    |-> weather_df]

(* The frames and identifiers evaluate_prediction is called with, over a   *)
(* store of power records and measured weather anchors.                    *)

EvalPowerPool ==
    { PRec(1, 0 - 1, Hour(0) - 2 * P_FREQUENCY, 90,  FALSE, FALSE),
      PRec(1, 0 - 1, Hour(0) - P_FREQUENCY,     95,  FALSE, FALSE),
      PRec(1, 0 - 1, Hour(0),                   100, FALSE, FALSE),
      PRec(1, 0 - 1, Hour(0) + P_FREQUENCY,     110, FALSE, FALSE) }

EvalWeatherPool ==
    { WRec(1, Hour(0), 0, "clear", Some(10), FALSE, FALSE),
      WRec(1, Hour(1), 0, "rain",  Some(12), FALSE, FALSE) }

(* Every store that lacks at most MaxEvalRecords of the power records.     *)
EvalStores ==
    { s \in [p : SUBSET EvalPowerPool, w : SUBSET EvalWeatherPool] :
        Cardinality(s.p) >= Cardinality(EvalPowerPool) - MaxEvalRecords }

PredictionRows(levels, first, second) ==
    <<FRow(IF levels THEN Some(first[1]) ELSE NaN, IF levels THEN Some(first[2]) ELSE NaN,
           Hour(0), first[3]),
      FRow(IF levels THEN Some(second[1]) ELSE NaN, IF levels THEN Some(second[2]) ELSE NaN,
           Hour(0) + P_FREQUENCY, second[3])>>

PredictionFrames ==
    { Frame(lv, "power", PredictionRows(lv, <<1, 0 - 1, Some(101)>>, <<1, 0 - 1, Some(108)>>)) :
          lv \in BOOLEAN }
    \cup { Frame(lv, "power", PredictionRows(lv, <<1, 0 - 1, Some(101)>>, <<1, 0 - 1, NaN>>)) :
          lv \in BOOLEAN }
    \cup { Frame(lv, "value", PredictionRows(lv, <<1, 0 - 1, Some(101)>>, <<1, 0 - 1, Some(108)>>)) :
          lv \in BOOLEAN }
    \cup { Frame(TRUE, "power", PredictionRows(TRUE, <<1, 0 - 1, Some(101)>>, <<2, 0 - 1, Some(108)>>)),
           Frame(TRUE, "power", PredictionRows(TRUE, <<1, 0 - 1, Some(101)>>, <<1, 0, Some(108)>>)) }

HistoryRows(levels) ==
    <<FRow(IF levels THEN Some(1) ELSE NaN, IF levels THEN Some(0 - 1) ELSE NaN,
           Hour(0) - 2 * P_FREQUENCY, Some(91)),
      FRow(IF levels THEN Some(1) ELSE NaN, IF levels THEN Some(0 - 1) ELSE NaN,
           Hour(0) - P_FREQUENCY, Some(93))>>

HistoryFrames ==
    { EmptyFrame, Frame(TRUE, "power_ac", HistoryRows(TRUE)),
      Frame(FALSE, "power_ac", HistoryRows(FALSE)) }

WeatherRows(start, n) ==
    [i \in 1..n |-> FRow(NaN, NaN, start + (i - 1) * P_FREQUENCY, Some(10 + i))]

WeatherFrames ==
    { EmptyFrame,
      Frame(FALSE, "temp", WeatherRows(Hour(0), 2)),
      Frame(FALSE, "temp", WeatherRows(Hour(1), 2)),
      Frame(FALSE, "temp", WeatherRows(Hour(0), 3)) }

EvalIdentifiers ==
    { None, Some(ObjArg(PowerPlantID(1, None))), Some(ObjArg(PowerPlantID(1, Some(0 - 1)))),
      Some(IntArg(1)) }

InitEvaluate ==
    /\ \E s \in EvalStores :
          /\ power = s.p
          /\ weather = s.w
    /\ exogenous = {}
    /\ call = [op |-> "none"]
    /\ result = Ok(<<>>, <<>>)
    /\ queries = 0
    /\ source = <<>>
    /\ meta = {}
    /\ files = <<>>
    /\ caller = <<>>

EvaluatePrediction ==
    /\ Idle
    /\ \E pf \in PredictionFrames, hf \in HistoryFrames, wf \in WeatherFrames,
          id \in EvalIdentifiers :
       \E emptyRaises \in (IF wf = EmptyFrame THEN {TRUE} ELSE BOOLEAN) :
        LET out == evaluate_prediction(pf, "power_ac", hf, wf, id, emptyRaises)
        IN  /\ call' = [op |-> "evaluate_prediction", prediction_df |-> pf,
                        history_df |-> hf, weather_df |-> wf, pp_id |-> id]
            /\ result' = out.res
            /\ queries' = out.queries
            /\ source' = <<>>
            /\ caller' = caller_frames(pf, "power_ac", hf, wf, id)
            /\ UNCHANGED <<weather, power, exogenous, meta, files>>

NextEvaluate == EvaluatePrediction

SpecEvaluate == InitEvaluate /\ [][NextEvaluate]_vars

-----------------------------------------------------------------------------
(* Properties.                                                             *)

IsWeather == call.op = "get_pp_weather"
Returned == result.status = "ok"
Smoothing == IsWeather /\ call.interpolate_smooth
HasSelection == IsWeather /\ (call.src_age # None \/ call.src_dt_max # None)

Rows == result.rows
RowTimes == {Rows[i].dt : i \in DOMAIN Rows}
IsDateTime(arg) == arg # None /\ arg[1] = "datetime"
IsDate(arg) == arg # None /\ arg[1] = "date"
SinglePlant == IsWeather /\ call.pp_id # None
PlantOf(arg) == IF arg.form = "obj" THEN arg.id.pp ELSE arg.v[1]

(* The 5-minute grid points t with a <= t < b. *)
GridPoints(a, b) == {t \in a..(b - 1) : t % P_FREQUENCY = 0}

OnFiveMinuteGrid ==
    /\ \A i \in DOMAIN Rows : Rows[i].dt % P_FREQUENCY = 0
    /\ \A i \in 1..(Len(Rows) - 1) : Rows[i + 1].dt = Rows[i].dt + P_FREQUENCY

(* C1: a single-plant smoothing fetch with explicit time_start < time_end  *)
(* on the 5-minute grid returns exactly the grid points t with             *)
(* time_start <= t < time_end, each once.                                  *)
C1_HalfOpenWindow ==
    ( /\ Smoothing /\ HasSelection /\ SinglePlant /\ Returned
      /\ IsDateTime(call.dt_start) /\ IsDateTime(call.dt_end)
      /\ call.dt_start[2] < call.dt_end[2]
      /\ call.dt_start[2] % P_FREQUENCY = 0
      /\ call.dt_end[2] % P_FREQUENCY = 0 )
    => /\ RowTimes = GridPoints(call.dt_start[2], call.dt_end[2])
       /\ Len(Rows) = Cardinality(RowTimes)

(* The stored records a single-plant fetch selects from, and the series of *)
(* their timestamps.                                                       *)
Eligible ==
    {r \in weather :
        /\ r.pp = PlantOf(call.pp_id[1])
        /\ call.src_age = None \/ r.age = call.src_age[1]
        /\ call.src_dt_max = None \/ r.src_dt <= call.src_dt_max[1]}

SeriesTimes == {r.dt : r \in Eligible}
SeriesT0 == SetMin(SeriesTimes)
SeriesTn == SetMax(SeriesTimes)

HourlySeries ==
    /\ SeriesTimes # {}
    /\ \A t \in SeriesT0..SeriesTn :
          (t - SeriesT0) % S_FREQUENCY = 0 => t \in SeriesTimes

BoundsAreSeriesEnds ==
    /\ call.dt_start = <<"datetime", SeriesT0>>
    /\ call.dt_end = <<"datetime", SeriesTn>>

BoundsOpen == call.dt_start = None /\ call.dt_end = None

DensityCount == Len(Rows) = (12 * (SeriesTn - SeriesT0)) \div S_FREQUENCY

(* C2 as stated: over an hourly series t0..tn of one plant, with the       *)
(* bounds given as t0 and tn or left open, the smoothed frame has exactly  *)
(* 12*(tn-t0)/1h rows on the 5-minute grid, 5 minutes apart.               *)
C2_DensityAnyBounds ==
    ( /\ Smoothing /\ HasSelection /\ SinglePlant /\ Returned
      /\ HourlySeries
      /\ BoundsAreSeriesEnds \/ BoundsOpen )
    => DensityCount /\ OnFiveMinuteGrid

(* C2 amended: with the bounds given as t0 and tn the frame has exactly    *)
(* 12*(tn-t0)/1h rows; with them given or left open every timestamp is a   *)
(* multiple of 5 minutes and consecutive timestamps are 5 minutes apart.   *)
C2_DensityExplicitBounds ==
    ( /\ Smoothing /\ HasSelection /\ SinglePlant /\ Returned
      /\ HourlySeries
      /\ BoundsAreSeriesEnds \/ BoundsOpen )
    => /\ BoundsAreSeriesEnds => DensityCount
       /\ OnFiveMinuteGrid

C2_Witness ==
    /\ Smoothing /\ HasSelection /\ SinglePlant /\ Returned
    /\ HourlySeries
    /\ BoundsAreSeriesEnds
    /\ SeriesT0 < SeriesTn
    /\ Len(Rows) = 12

(* Two rows a, b of the frame handed to resampling are consecutive anchors *)
(* of temp for one plant.                                                  *)
ConsecutiveAnchors(a, b) ==
    /\ source[a].pp = source[b].pp
    /\ source[a].temp # NaN
    /\ source[b].temp # NaN
    /\ source[a].dt < source[b].dt
    /\ ~\E k \in DOMAIN source :
          /\ source[k].pp = source[a].pp
          /\ source[k].temp # NaN
          /\ source[a].dt < source[k].dt
          /\ source[k].dt < source[b].dt

(* C3: between two consecutive anchors (ta, va), (tb, vb) of a float       *)
(* column every returned row of that plant with ta <= t <= tb carries      *)
(* va + (vb - va) * (t - ta) / (tb - ta).                                  *)
C3_LinearInTime ==
    (Smoothing /\ Returned) =>
        \A a \in DOMAIN source, b \in DOMAIN source :
            ConsecutiveAnchors(a, b) =>
                LET ta == source[a].dt
                    tb == source[b].dt
                    va == source[a].temp[1]
                    vb == source[b].temp[1]
                IN  \A i \in DOMAIN Rows :
                        ( /\ Rows[i].pp = source[a].pp
                          /\ ta <= Rows[i].dt
                          /\ Rows[i].dt <= tb )
                        => /\ Rows[i].temp # NaN
                           /\ Rows[i].temp[1] * (tb - ta)
                                = (va * (tb - ta) + (vb - va) * (Rows[i].dt - ta))
                                      * Rows[i].temp[2]

(* The scenario of the claim: 10 at 00:00, 12 at 01:00, start 00:00, end   *)
(* 01:00 gives the 12 rows 00:00 .. 00:55 with 10 + k/6.                   *)
C3_Witness ==
    /\ Smoothing /\ Returned /\ SinglePlant
    /\ weather = { WRec(1, Hour(0), 0, "clear", Some(10), FALSE, FALSE),
                   WRec(1, Hour(1), 0, "rain",  Some(12), FALSE, FALSE) }
    /\ call.src_age = Some(0)
    /\ call.dt_start = <<"datetime", Hour(0)>>
    /\ call.dt_end = <<"datetime", Hour(1)>>
    /\ Len(Rows) = 12
    /\ \A k \in 0..11 :
          /\ Rows[k + 1].dt = Hour(0) + 5 * k
          /\ Rows[k + 1].temp = Frac(60 + k, 6)

(* C4: in a smoothing fetch across all plants every cell of plant A equals *)
(* the cell at the same timestamp of the single-plant smoothing fetch of A *)
(* over the same window and selection.                                     *)
SingleFetch(A) ==
    get_pp_weather(Some(IntArg(A)), call.dt_start, call.dt_end, FALSE,
                   call.src_age, call.src_dt_max, TRUE, TRUE, TRUE).res

SameCells(r, q) ==
    /\ r.temp = q.temp
    /\ r.src_dt = q.src_dt
    /\ r.summary = q.summary
    /\ r.ipolated = q.ipolated
    /\ r.epolated = q.epolated

C4_PlantsIndependent ==
    (Smoothing /\ HasSelection /\ call.pp_id = None /\ Returned) =>
        \A A \in {r.pp : r \in weather} :
            LET single == SingleFetch(A)
                at == [t \in {single.rows[j].dt : j \in DOMAIN single.rows} |->
                          single.rows[CHOOSE j \in DOMAIN single.rows :
                                          single.rows[j].dt = t]]
            IN  single.status = "ok" =>
                    \A i \in DOMAIN Rows :
                        (Rows[i].pp = Some(A) /\ Rows[i].dt \in DOMAIN at)
                            => SameCells(Rows[i], at[Rows[i].dt])

(* C5: walking one plant's rows of a smoothed frame in time order,         *)
(* summary, ipolated and epolated change only at a timestamp where the     *)
(* frame handed to resampling has a row of that plant, and every other row *)
(* carries the values of the latest such row at or before it.              *)
AnchorsUpTo(pp, t) ==
    {a \in DOMAIN source : source[a].pp = pp /\ source[a].dt <= t}

AnchorAt(pp, t) == \E a \in DOMAIN source : source[a].pp = pp /\ source[a].dt = t

SameCarried(r, q) ==
    /\ r.summary = q.summary
    /\ r.ipolated = q.ipolated
    /\ r.epolated = q.epolated

InWindow(t) ==
    /\ call.dt_start = None \/ call.dt_start[2] <= t
    /\ call.dt_end = None \/ t <= call.dt_end[2]

(* The stored record of the smallest age among the eligible ones at t. *)
Freshest(t) ==
    CHOOSE r \in Eligible :
        /\ r.dt = t
        /\ \A q \in Eligible : q.dt = t => r.age <= q.age

(* C6: a latest-before-cutoff fetch for one plant returns exactly one row  *)
(* per stored timestamp in the window, and that row is the stored record   *)
(* of the smallest age among those with src_dt <= cutoff.                  *)
C6_FreshestRecord ==
    ( /\ SinglePlant /\ ~call.interpolate_smooth /\ Returned
      /\ call.src_dt_max # None /\ call.src_age = None
      /\ ~IsDate(call.dt_start) /\ ~IsDate(call.dt_end) )
    => /\ RowTimes = {t \in SeriesTimes : InWindow(t)}
       /\ Len(Rows) = Cardinality(RowTimes)
       /\ \A i \in DOMAIN Rows :
             LET best == WRow(Freshest(Rows[i].dt), FALSE, FALSE)
             IN  /\ Rows[i].src_dt = best.src_dt
                 /\ SameCells(Rows[i], best)

IsFetch == call.op \in {"get_pp_weather", "get_pp_power", "get_pp_exogenous"}

(* C7: the rows of a returned power, weather or exogenous frame are in     *)
(* non-decreasing timestamp order, and weather rows of one timestamp in    *)
(* non-decreasing age order.                                               *)
C7_TimeOrdered ==
    (IsFetch /\ Returned) =>
        \A i \in 1..(Len(Rows) - 1) :
            /\ Rows[i].dt <= Rows[i + 1].dt
            /\ ( /\ IsWeather
                 /\ Rows[i].dt = Rows[i + 1].dt
                 /\ Rows[i].age # NaN /\ Rows[i + 1].age # NaN )
               => Rows[i].age[1] <= Rows[i + 1].age[1]

(* The stored records a fetch selects from when no window is given. *)
Candidates ==
    CASE call.op = "get_pp_weather" ->
            {[pp |-> r.pp, dt |-> r.dt] : r \in
                {r \in weather :
                    /\ call.pp_id = None \/ r.pp = PlantOf(call.pp_id[1])
                    /\ call.src_age = None \/ r.age = call.src_age[1]
                    /\ call.src_dt_max = None \/ r.src_dt <= call.src_dt_max[1]}}
      [] call.op = "get_pp_power" ->
            {[pp |-> r.pp, dt |-> r.dt] : r \in
                {r \in power :
                    \/ call.pp_id = None
                    \/ /\ r.pp = PlantOf(call.pp_id[1])
                       /\ \/ call.pp_id[1].form # "obj"
                          \/ call.pp_id[1].id.inv = None
                          \/ call.pp_id[1].id.inv = Some(r.inv)}}
      [] call.op = "get_pp_exogenous" ->
            {[pp |-> r.pp, dt |-> r.dt] : r \in
                {r \in exogenous :
                    call.pp_id = None \/ r.pp = PlantOf(call.pp_id[1])}}

DayOf(t) == t \div DayMinutes

NotBeforeStart(t) ==
    \/ call.dt_start = None
    \/ IsDateTime(call.dt_start) /\ call.dt_start[2] <= t
    \/ IsDate(call.dt_start) /\ call.dt_start[2] <= DayOf(t)

NotAfterEnd(t) ==
    \/ call.dt_end = None
    \/ IsDateTime(call.dt_end) /\ t <= call.dt_end[2]
    \/ IsDate(call.dt_end) /\ DayOf(t) <= call.dt_end[2]

(* C8: a bare date D as time_end keeps every stored record of day D, a     *)
(* bare date D as time_start keeps every stored record of day D, in all    *)
(* three fetches.                                                          *)
C8_DateBoundsInclusive ==
    ( /\ IsFetch /\ Returned
      /\ IsWeather => ~call.interpolate_smooth
      /\ IsDate(call.dt_start) \/ IsDate(call.dt_end) )
    => \A r \in Candidates :
          (NotBeforeStart(r.dt) /\ NotAfterEnd(r.dt))
              => \E i \in DOMAIN Rows :
                    /\ Rows[i].dt = r.dt
                    /\ Rows[i].pp # NaN => Rows[i].pp = Some(r.pp)

(* C9: get_pp_weather with interpolate_smooth and neither src_age nor      *)
(* src_dt_max raises its RuntimeError before any statement reaches the     *)
(* store; with either selection mode given that error is not raised.       *)
C9_SmoothNeedsSelection ==
    IsWeather =>
        /\ (call.interpolate_smooth /\ ~HasSelection) =>
              /\ result.status = "raised"
              /\ result.error = "RuntimeError"
              /\ queries = 0
        /\ HasSelection => ~(result.status = "raised" /\ result.error = "RuntimeError")

C9_Witness ==
    /\ Smoothing
    /\ ~HasSelection
    /\ result.status = "raised"
    /\ weather # {}

(* C10: identities are ordered by plant id first, whatever the inverter    *)
(* ids; within one plant the whole-plant identity (no inverter id) is less *)
(* than every inverter identity, and two inverter identities compare by    *)
(* inverter id.                                                            *)
C10_IdentityOrder ==
    call.op = "lt" =>
        LET x == call.self
            y == call.other
        IN  /\ x.pp < y.pp => result.value
            /\ (x.pp = y.pp /\ x.inv = None /\ y.inv # None) => result.value
            /\ (x.pp = y.pp /\ x.inv # None /\ y.inv # None) =>
                  (result.value <=> x.inv[1] < y.inv[1])

C10_Witness ==
    /\ call.op = "lt"
    /\ call.self.pp < call.other.pp
    /\ call.self.inv # None
    /\ call.other.inv # None
    /\ call.other.inv[1] < call.self.inv[1]
    /\ result.value

(* C11: get_pp_id of a bare integer p or of a 1-element sequence [p] is a  *)
(* whole-plant identity, equal to and hashing like PowerPlantID(p); an     *)
(* already resolved identity is returned unchanged.                        *)
C11_ResolveWholePlant ==
    call.op = "get_pp_id" =>
        LET arg == call.arg
            id  == result.value
        IN  /\ (arg.form = "int" \/ (arg.form = "list" /\ Len(arg.v) = 1)) =>
                  /\ is_whole_power_plant(id)
                  /\ PowerPlantID_eq(id, PowerPlantID(arg.v[1], None))
                  /\ PowerPlantID_hash(id) = PowerPlantID_hash(PowerPlantID(arg.v[1], None))
            /\ arg.form = "obj" => id = arg.id

IsHistory == call.op = "prepare_history"

(* The instant an argument names, a bare date standing for its first one. *)
InstantOf(arg) == IF arg[1] = "datetime" THEN arg[2] ELSE arg[2] * DayMinutes

(* The plant and the stored inverter id an identifier names; the whole     *)
(* plant is stored under inverter id -1.                                   *)
PlantNamed(arg) == IF arg.form = "obj" THEN arg.id.pp ELSE arg.v[1]

InverterNamed(arg) ==
    IF arg.form = "obj" /\ arg.id.inv # None THEN arg.id.inv[1]
    ELSE IF arg.form = "list" /\ Len(arg.v) = 2 THEN arg.v[2]
    ELSE 0 - 1

StoredPower(arg, t) ==
    {r \in power : r.pp = PlantNamed(arg) /\ r.inv = InverterNamed(arg) /\ r.dt = t}

SamePower(row, r) ==
    /\ row.power_ac = r.power_ac
    /\ row.ipolated = r.ipolated
    /\ row.epolated = r.epolated

(* C12: prepare_history returns exactly count rows, at start - count*5min, *)
(* ..., start - 5min, for every count, either fallback setting and every   *)
(* content of the power table.                                             *)
C12_HistoryGrid ==
    IsHistory =>
        /\ Returned
        /\ Len(Rows) = call.history_cnt
        /\ \A i \in DOMAIN Rows :
              Rows[i].dt = InstantOf(call.dt_start)
                              - (call.history_cnt - i + 1) * P_FREQUENCY

(* C13: without fallback, a grid timestamp of the history window with no   *)
(* stored record is a row of zero power flagged not interpolated and       *)
(* extrapolated, and one with a stored record is a row carrying that       *)
(* record's values and flags.                                              *)
C13_HistoryZeroFill ==
    (IsHistory /\ ~call.history_fallback) =>
        /\ Returned
        /\ \A k \in 1..call.history_cnt :
              LET t    == InstantOf(call.dt_start) - k * P_FREQUENCY
                  recs == StoredPower(call.pp_id, t)
              IN  \E i \in DOMAIN Rows :
                      /\ Rows[i].dt = t
                      /\ recs = {} =>
                            /\ Rows[i].power_ac = 0
                            /\ Rows[i].ipolated = FALSE
                            /\ Rows[i].epolated = TRUE
                      /\ \A r \in recs : SamePower(Rows[i], r)

(* C14: with fallback, every returned row lies before start and carries    *)
(* the values of the record stored for that identity at the row's own      *)
(* timestamp.                                                              *)
C14_FallbackInventsNothing ==
    (IsHistory /\ call.history_fallback /\ Returned) =>
        \A i \in DOMAIN Rows :
            /\ Rows[i].dt < InstantOf(call.dt_start)
            /\ \E r \in StoredPower(call.pp_id, Rows[i].dt) : SamePower(Rows[i], r)

IsPrepareWeather == call.op = "prepare_weather"

ConfigurationError ==
    \/ call.weather_scheme = "forecast" /\ call.forecast_delta = None
    \/ call.weather_scheme \notin {"measured", "forecast", "realistic"}

(* The stored records the scheme of the call may draw its anchors from,    *)
(* and the one of them that stands for timestamp t.                        *)
SchemeRecords ==
    {r \in weather :
        /\ r.pp = PlantNamed(call.pp_id)
        /\ CASE call.weather_scheme = "measured" -> r.age = 0
             [] call.weather_scheme = "forecast" -> r.age = call.forecast_delta[1]
             [] OTHER -> r.src_dt <= InstantOf(call.dt_start)}

Designated(t) ==
    CHOOSE r \in SchemeRecords :
        /\ r.dt = t
        /\ \A q \in SchemeRecords : q.dt = t => r.age <= q.age

(* C15: every anchor prepare_weather resamples is a stored record of the   *)
(* scheme: age 0 for "measured", age forecast_delta for "forecast", and    *)
(* for "realistic" the smallest-age record with src_dt <= start at its     *)
(* timestamp, cell by cell.                                                *)
C15_SchemeAnchors ==
    (IsPrepareWeather /\ ~ConfigurationError) =>
        \A a \in DOMAIN source :
            /\ \E r \in SchemeRecords : r.dt = source[a].dt
            /\ SameCells(source[a], WRow(Designated(source[a].dt), TRUE, FALSE))

(* Exogenous records at every grid point of the window, and an anchor at   *)
(* or before its start and at or after its end.                            *)
WindowCovered ==
    /\ \A t \in GridPoints(InstantOf(call.dt_start), InstantOf(call.dt_end)) :
          \E e \in exogenous : e.pp = PlantNamed(call.pp_id) /\ e.dt = t
    /\ \E r \in SchemeRecords : r.dt <= InstantOf(call.dt_start)
    /\ \E r \in SchemeRecords : r.dt >= InstantOf(call.dt_end)

(* C16: over a covered window with dt_start < dt_end on the 5-minute grid  *)
(* prepare_weather returns exactly the grid points t with                  *)
(* dt_start <= t < dt_end.                                                 *)
C16_PreparedWindowHalfOpen ==
    ( /\ IsPrepareWeather /\ ~ConfigurationError /\ Returned
      /\ InstantOf(call.dt_start) < InstantOf(call.dt_end)
      /\ WindowCovered )
    => /\ RowTimes = GridPoints(InstantOf(call.dt_start), InstantOf(call.dt_end))
       /\ Len(Rows) = Cardinality(RowTimes)

(* C17: prepare_weather with scheme "forecast" and no forecast_delta, or   *)
(* with a scheme other than measured / forecast / realistic, raises its    *)
(* RuntimeError before any statement reaches the store.                    *)
C17_SchemeErrors ==
    (IsPrepareWeather /\ ConfigurationError) =>
        /\ result.status = "raised"
        /\ result.error = "RuntimeError"
        /\ queries = 0

C17_Witness ==
    /\ IsPrepareWeather
    /\ call.weather_scheme = "climate"
    /\ result.status = "raised"
    /\ queries = 0
    /\ weather # {}
    /\ exogenous # {}

IsEvaluate == call.op = "evaluate_prediction"

PlantsOf(frame) == {frame.rows[i].pp : i \in DOMAIN frame.rows}
InvertersOf(frame) == {frame.rows[i].inv : i \in DOMAIN frame.rows}
SpanOf(frame) ==
    <<SetMin({frame.rows[i].dt : i \in DOMAIN frame.rows}),
      SetMax({frame.rows[i].dt : i \in DOMAIN frame.rows})>>

PredictionViolates ==
    LET f == call.prediction_df
    IN  \/ f.column # "power"
        \/ \E i \in DOMAIN f.rows : f.rows[i].value = NaN
        \/ ~f.levels /\ call.pp_id = None
        \/ f.levels /\ (Cardinality(PlantsOf(f)) > 1 \/ Cardinality(InvertersOf(f)) > 1)

RejectedBeforeFetch ==
    /\ result.status = "raised"
    /\ result.error = "RuntimeError"
    /\ queries = 0

(* C18: a prediction frame with no power column, a missing power value, no *)
(* pp_id / inv_id levels while pp_id is not given, or more than one plant  *)
(* or inverter makes evaluate_prediction raise its data-contract error     *)
(* before any statement reaches the store.                                 *)
C18_PredictionPreconditions ==
    (IsEvaluate /\ PredictionViolates) => RejectedBeforeFetch

Disagrees(frame) ==
    /\ Len(frame.rows) > 0
    /\ \/ Len(frame.rows) # Len(call.prediction_df.rows)
       \/ SpanOf(frame) # SpanOf(call.prediction_df)

(* C19: a non-empty weather or history frame whose length or time span     *)
(* differs from the prediction frame's makes evaluate_prediction raise its *)
(* data error.                                                             *)
C19_FramesMustAgree ==
    (IsEvaluate /\ (Disagrees(call.weather_df) \/ Disagrees(call.history_df)))
        => (result.status = "raised" /\ result.error = "RuntimeError")

(* The plant and inverter the evaluation is about. *)
EvaluatedPlant ==
    IF call.prediction_df.levels THEN call.prediction_df.rows[1].pp[1]
    ELSE PlantNamed(call.pp_id[1])

EvaluatedInverter ==
    IF call.prediction_df.levels THEN call.prediction_df.rows[1].inv[1]
    ELSE InverterNamed(call.pp_id[1])

Values(rows) == [i \in DOMAIN rows |-> <<rows[i].dt, rows[i].value>>]

(* C20: the "history" statistics of a call with a non-empty history frame  *)
(* compare the rows of that frame with the power stored for the identity   *)
(* over the history frame's own time span.                                 *)
C20_HistoryFromHistoryFrame ==
    (IsEvaluate /\ Returned /\ Len(call.history_df.rows) > 0) =>
        LET h      == result.stats.history
            span   == SpanOf(call.history_df)
            stored == {r \in power :
                          /\ r.pp = EvaluatedPlant
                          /\ r.inv = EvaluatedInverter
                          /\ span[1] <= r.dt
                          /\ r.dt <= span[2]}
        IN  /\ Values(h.pred) = Values(call.history_df.rows)
            /\ h.span = span
            /\ stored # {} =>
                  {<<h.ground[i].dt, h.ground[i].value>> : i \in DOMAIN h.ground}
                      = {<<r.dt, Some(r.power_ac)>> : r \in stored}

-----------------------------------------------------------------------------
(* Identity order, continued.                                               *)

Compared == call.op = "lt"

(* C26: < is a strict total order consistent with ==: for every pair of    *)
(* identities x, y exactly one of x < y, x == y, y < x holds (so x < x is  *)
(* never true and x < y, y < x never both hold).                           *)
C26_StrictTotalOrder ==
    Compared =>
        LET x  == call.self
            y  == call.other
            lt == result.value
            eq == PowerPlantID_eq(x, y)
            gt == PowerPlantID_lt(y, x)
        IN  /\ lt \/ eq \/ gt
            /\ ~(lt /\ eq)
            /\ ~(eq /\ gt)
            /\ ~(lt /\ gt)

-----------------------------------------------------------------------------
(* Weather fetch, continued.                                                *)

(* The frame after the selection step: handed to resampling by a smoothing *)
(* fetch, returned as it is otherwise.                                     *)
SelectedFrame == IF call.interpolate_smooth THEN source ELSE Rows

(* The window of the statement: rounded outward to the hour by a smoothing *)
(* fetch.                                                                  *)
InFetchWindow(t) ==
    IF call.interpolate_smooth
    THEN /\ call.dt_start = None \/ freq_floor(call.dt_start[2], S_FREQUENCY) <= t
         /\ call.dt_end = None \/ t <= freq_ceil(call.dt_end[2], S_FREQUENCY)
    ELSE InWindow(t)

EligibleOf(pp, t) ==
    {r \in weather :
        /\ r.pp = pp
        /\ r.dt = t
        /\ r.src_dt <= call.src_dt_max[1]
        /\ InFetchWindow(t)}

(* C27: a latest-before-cutoff fetch across all plants holds exactly one   *)
(* row per (plant, timestamp) pair with an eligible record, and that row   *)
(* is the plant's smallest-age record with src_dt <= cutoff.               *)
C27_OneRowPerPlantAndTime ==
    ( /\ IsWeather /\ Returned
      /\ call.pp_id = None
      /\ call.src_dt_max # None /\ call.src_age = None
      /\ ~IsDate(call.dt_start) /\ ~IsDate(call.dt_end) )
    => \A pp \in {r.pp : r \in weather}, t \in {r.dt : r \in weather} :
          EligibleOf(pp, t) # {} =>
              LET fresh == CHOOSE r \in EligibleOf(pp, t) :
                               \A q \in EligibleOf(pp, t) : r.age <= q.age
                  held  == {i \in DOMAIN SelectedFrame :
                               /\ SelectedFrame[i].pp = Some(pp)
                               /\ SelectedFrame[i].dt = t}
              IN  /\ Cardinality(held) = 1
                  /\ \A i \in held : SameCells(SelectedFrame[i], WRow(fresh, TRUE, FALSE))

(* C28: the trailing row a smoothing fetch without dt_end synthesizes has  *)
(* the forecast lead (dt - src_dt) of the last stored row.                 *)
C28_TrailingRowKeepsLead ==
    (Smoothing /\ Returned /\ call.dt_end = None /\ Len(source) >= 2) =>
        LET n    == Len(source)
            last == source[n - 1]
            new  == source[n]
        IN  (last.src_dt # NaN /\ new.src_dt # NaN) =>
                FSub(<<new.dt, 1>>, new.src_dt) = FSub(<<last.dt, 1>>, last.src_dt)

-----------------------------------------------------------------------------
(* Evaluation, continued.                                                   *)

(* C30: evaluate_prediction leaves the caller's prediction, history and    *)
(* weather frames as they were (column names, index, values), whether it   *)
(* returns or raises.                                                      *)
C30_InputsUntouched ==
    IsEvaluate =>
        /\ caller.prediction_df = call.prediction_df
        /\ caller.history_df = call.history_df
        /\ caller.weather_df = call.weather_df

-----------------------------------------------------------------------------
(* Opening a store: SolarDBData.__init__ (data.py 141-170),                *)
(* check_create_tables (201-207), DataLoader._prepare_db (loader.py 55-65) *)
(* and pp_exists (data.py 248-270).  A database file holds the four tables *)
(* of tables.py; files maps each path to None (no such file) or to         *)
(* Some(tables).  Opening a file makes its tables the live store.          *)

MRec(pp, inv, location) == [pp |-> pp, inv |-> inv, location |-> location]

Tables(m, p, w, e) == [meta |-> m, power |-> p, weather |-> w, exogenous |-> e]

(* SolarTableMetaData.create_all on a file that holds no table.            *)
EmptyTables == Tables({}, {}, {}, {})

(* A url as the caller writes it: scheme "" for a bare path ("a.db"),      *)
(* "sqlite" for "sqlite:///a.db".                                           *)
Url(scheme, path) == [scheme |-> scheme, path |-> path]

(* Line 146: ":" not in url.                                               *)
is_bare_path(url) == url.scheme = ""

(* Lines 146-149.                                                          *)
missing_file_rejected(url, create_db, disk) ==
    is_bare_path(url) /\ ~create_db /\ disk[url.path] = None

(* Lines 201-207: create_all(checkfirst=True) connects, which creates a    *)
(* missing sqlite file, and creates the tables the file lacks.             *)
check_create_tables(path, disk) ==
    IF disk[path] = None THEN [disk EXCEPT ![path] = Some(EmptyTables)] ELSE disk

(* SolarDBData.__init__: <<raised, files afterwards>>.                      *)
SolarDBData_init(url, create_db, disk) ==
    IF missing_file_rejected(url, create_db, disk)
    THEN [res |-> Raised("RuntimeError"), files |-> disk]
    ELSE [res |-> Ok(<<>>, <<>>), files |-> check_create_tables(url.path, disk)]

(* DataLoader._prepare_db: the path is wrapped into a sqlite url and       *)
(* create_db keeps its default.                                            *)
prepare_db(db_path, disk) ==
    SolarDBData_init(Url("sqlite", db_path), FALSE, disk)

(* pp_exists: SELECT meta.pp_id FROM meta, power WHERE power.pp_id = :p    *)
(* [AND power.inv_id = :i]; the statement names columns of both tables, so *)
(* its FROM list holds both and the rows are pairs.                        *)
pp_exists(pp_id_arg) ==
    LET pp_id == get_pp_id(pp_id_arg)
        rows  == {mr \in meta \X power :
                     /\ mr[2].pp = pp_id.pp
                     /\ is_whole_power_plant(pp_id) \/ mr[2].inv = pp_id.inv[1]}
    IN  rows # {}

StoreMetaPool ==
    { MRec(1, 0 - 1, "north"), MRec(1, 0, "north"), MRec(2, 0 - 1, "south") }

StorePowerPool ==
    { PRec(1, 0 - 1, Hour(0), 100, FALSE, FALSE),
      PRec(1, 0,     Hour(0), 50,  FALSE, FALSE),
      PRec(2, 0 - 1, Hour(0), 70,  FALSE, FALSE) }

StorePaths == {"a.db"}

(* The disk before the program runs: the file is missing or holds any      *)
(* part of the pools.                                                      *)
StoreDisks ==
    [StorePaths -> {None} \cup
        {Some(Tables(m, p, {}, {})) : m \in SUBSET StoreMetaPool, p \in SUBSET StorePowerPool}]

StoreUrls == {Url(sc, path) : sc \in {"", "sqlite"}, path \in StorePaths}

StoreIdentifiers ==
    { IntArg(1), IntArg(2), ObjArg(PowerPlantID(1, None)),
      ObjArg(PowerPlantID(1, Some(0))), ObjArg(PowerPlantID(2, None)) }

InitStore ==
    /\ files \in StoreDisks
    /\ weather = {}
    /\ power = {}
    /\ exogenous = {}
    /\ meta = {}
    /\ call = [op |-> "none"]
    /\ result = Ok(<<>>, <<>>)
    /\ queries = 0
    /\ source = <<>>
    /\ caller = <<>>

(* The tables of the opened file become the live store. *)
Connected(path, out) ==
    IF out.res.status = "raised"
    THEN UNCHANGED <<weather, power, exogenous, meta>>
    ELSE /\ meta' = out.files[path][1].meta
         /\ power' = out.files[path][1].power
         /\ weather' = out.files[path][1].weather
         /\ exogenous' = out.files[path][1].exogenous

OpenStore ==
    /\ Idle
    /\ \E url \in StoreUrls, create_db \in BOOLEAN :
        LET out == SolarDBData_init(url, create_db, files)
        IN  /\ call' = [op |-> "SolarDBData", url |-> url, create_db |-> create_db]
            /\ result' = out.res
            /\ files' = out.files
            /\ Connected(url.path, out)
            /\ UNCHANGED <<queries, source, caller>>

PrepareDb ==
    /\ Idle
    /\ \E db_path \in StorePaths :
        LET out == prepare_db(db_path, files)
        IN  /\ call' = [op |-> "_prepare_db", url |-> Url("sqlite", db_path),
                        create_db |-> FALSE]
            /\ result' = out.res
            /\ files' = out.files
            /\ Connected(db_path, out)
            /\ UNCHANGED <<queries, source, caller>>

Opened == call.op \in {"SolarDBData", "_prepare_db"} /\ result.status = "ok"

PpExists ==
    /\ Opened
    /\ \E arg \in StoreIdentifiers :
        /\ call' = [op |-> "pp_exists", pp_id |-> arg]
        /\ result' = [status |-> "ok", error |-> "", rows |-> <<>>, index |-> <<>>,
                      value |-> pp_exists(arg)]
        /\ queries' = queries + 1
        /\ UNCHANGED <<weather, power, exogenous, meta, files, source, caller>>

NextStore == OpenStore \/ PrepareDb \/ PpExists

SpecStore == InitStore /\ [][NextStore]_vars

(* C23: opening a store with create_db = false on a database file that     *)
(* does not exist fails and does not create the file, for a bare path and  *)
(* for a sqlite url, directly and through DataLoader.                      *)
C23_MissingFileNotCreated ==
    [][ ( /\ Idle
          /\ call'.op \in {"SolarDBData", "_prepare_db"}
          /\ ~call'.create_db
          /\ files[call'.url.path] = None )
        => ( /\ result'.status = "raised"
             /\ files'[call'.url.path] = None ) ]_vars

(* C25: pp_exists is true exactly when the power table holds a record of   *)
(* the plant (of the inverter when the identity names one), whatever the   *)
(* meta table holds.                                                       *)
C25_ExistsIffPowerRecord ==
    call.op = "pp_exists" =>
        LET id == get_pp_id(call.pp_id)
        IN  result.value <=>
                \E r \in power :
                    /\ r.pp = id.pp
                    /\ is_whole_power_plant(id) \/ r.inv = id.inv[1]

-----------------------------------------------------------------------------
(* dump_as_sqlite, data.py 209-246.  The live store is the source; the     *)
(* destination is a file.  The batch loop is followed statement by         *)
(* statement: call.pc is the position in the handler, call.table the       *)
(* table of the for loop, call.records and call.fetched its two counters.  *)

MaxBatch == 3

(* SolarTableMetaData.tables, in the order tables.py declares them.        *)
TableNames == <<"power", "weather", "exogenous", "meta">>

SourceTable(name) ==
    CASE name = "power"     -> power
      [] name = "weather"   -> weather
      [] name = "exogenous" -> exogenous
      [] OTHER              -> meta

(* The rows of an unordered statement come in the scan order of the table, *)
(* the same for every statement of one dump (no writer runs beside it).    *)
ScanOrder(S) ==
    CHOOSE q \in [1..Cardinality(S) -> S] : {q[i] : i \in DOMAIN q} = S

(* table.select().limit(batch_size).offset(fetched)                        *)
LimitOffset(S, batch_size, fetched) ==
    LET q == ScanOrder(S)
    IN  {q[i] : i \in {j \in DOMAIN q : fetched < j /\ j <= fetched + batch_size}}

(* Mutant: an existing destination is never refused.                       *)
dump_refused_never(exists, overwrite) == FALSE

(* Line 225: os.path.isfile(path) and not overwrite.                       *)
dump_refused(exists, overwrite) == exists /\ ~overwrite

(* Mutant: the offset skips one row after every batch.                     *)
next_offset_skip(fetched, batch_size) == fetched + batch_size + 1

(* Line 243: fetched += batch_size.                                        *)
next_offset(fetched, batch_size) == fetched + batch_size

(* Line 246: the insert of one batch; a row whose primary key the          *)
(* destination table already holds violates the key.                      *)
insert_rows(tables, name, data) ==
    [tables EXCEPT ![name] = @ \cup data]

key_conflict(tables, name, data) == data \cap tables[name] # {}

DumpPowerPool ==
    { PRec(1, 0 - 1, Hour(0),               100, FALSE, FALSE),
      PRec(1, 0 - 1, Hour(0) + P_FREQUENCY, 110, FALSE, FALSE),
      PRec(1, 0,     Hour(0),               50,  FALSE, FALSE) }

DumpWeatherPool == { WRec(1, Hour(0), 0, "clear", Some(10), FALSE, FALSE) }

DumpExogenousPool == { ERec(1, Hour(0), 1) }

DumpMetaPool == { MRec(1, 0 - 1, "north") }

DumpPaths == {<<"out.db">>}

(* What the destination holds before the dump: nothing, empty tables, or   *)
(* rows of an earlier dump (one of them a row the source holds too).       *)
DumpDisks ==
    [DumpPaths -> { None, Some(EmptyTables),
                    Some(Tables({MRec(2, 0 - 1, "south")},
                                {PRec(1, 0 - 1, Hour(0), 100, FALSE, FALSE),
                                 PRec(2, 0 - 1, Hour(0), 70, FALSE, FALSE)}, {}, {})) }]

InitDump ==
    /\ power \in SUBSET DumpPowerPool
    /\ weather \in SUBSET DumpWeatherPool
    /\ exogenous \in SUBSET DumpExogenousPool
    /\ meta \in SUBSET DumpMetaPool
    /\ files \in DumpDisks
    /\ call = [op |-> "none"]
    /\ result = Ok(<<>>, <<>>)
    /\ queries = 0
    /\ source = <<>>
    /\ caller = <<>>

Dumping == call.op = "dump_as_sqlite"

(* Lines 225-233: the check, then drop_all and create_all on the           *)
(* destination.                                                            *)
DumpAsSqlite ==
    /\ Idle
    /\ \E path \in DumpPaths, overwrite \in BOOLEAN, batch_size \in 1..MaxBatch :
        LET entered == [op |-> "dump_as_sqlite", path |-> path, overwrite |-> overwrite,
                        batch_size |-> batch_size, table |-> 1, records |-> 0,
                        fetched |-> 0, pc |-> "count"]
        IN  IF dump_refused(files[path] # None, overwrite)
            THEN /\ call' = [entered EXCEPT !.pc = "done"]
                 /\ result' = Raised("ValueError")
                 /\ UNCHANGED files
            ELSE /\ call' = entered
                 /\ result' = Ok(<<>>, <<>>)
                 /\ files' = [files EXCEPT ![path] = Some(EmptyTables)]
    /\ UNCHANGED <<weather, power, exogenous, meta, queries, source, caller>>

(* Lines 237-238: records = count(table), fetched = 0.                     *)
DumpCount ==
    /\ Dumping /\ call.pc = "count"
    /\ call' = [call EXCEPT !.records = Cardinality(SourceTable(TableNames[call.table])),
                            !.fetched = 0, !.pc = "loop"]
    /\ queries' = queries + 1
    /\ UNCHANGED <<weather, power, exogenous, meta, files, result, source, caller>>

(* Lines 240-246: one pass of the while loop.                              *)
DumpBatch ==
    /\ Dumping /\ call.pc = "loop"
    /\ call.fetched < call.records
    /\ LET name == TableNames[call.table]
           data == LimitOffset(SourceTable(name), call.batch_size, call.fetched)
           dest == files[call.path][1]
       IN  IF key_conflict(dest, name, data)
           THEN /\ call' = [call EXCEPT !.fetched = next_offset(call.fetched, call.batch_size),
                                        !.pc = "done"]
                /\ result' = Raised("IntegrityError")
                /\ UNCHANGED files
           ELSE /\ call' = [call EXCEPT !.fetched = next_offset(call.fetched, call.batch_size)]
                /\ files' = [files EXCEPT ![call.path] = Some(insert_rows(dest, name, data))]
                /\ UNCHANGED result
    /\ queries' = queries + 1
    /\ UNCHANGED <<weather, power, exogenous, meta, source, caller>>

(* Line 240 false: the for loop goes on to the next table, or the handler  *)
(* returns after the last one.                                             *)
DumpNextTable ==
    /\ Dumping /\ call.pc = "loop"
    /\ ~(call.fetched < call.records)
    /\ call' = IF call.table = Len(TableNames)
               THEN [call EXCEPT !.pc = "done"]
               ELSE [call EXCEPT !.table = call.table + 1, !.pc = "count"]
    /\ UNCHANGED <<weather, power, exogenous, meta, files, result, queries, source, caller>>

NextDump == DumpAsSqlite \/ DumpCount \/ DumpBatch \/ DumpNextTable

(* The handler is synchronous code: a statement that can run does run.     *)
SpecDump == InitDump /\ [][NextDump]_vars /\ WF_vars(NextDump)

DumpReturned == Dumping /\ call.pc = "done" /\ result.status = "ok"

LiveTables == Tables(meta, power, weather, exogenous)

(* C21: a dump that is not refused terminates, and then every destination  *)
(* table holds exactly the rows of its source table, for every batch size  *)
(* and whatever the destination held before.                               *)
C21_DumpCopiesEveryRow ==
    /\ [](DumpReturned => files[call.path] = Some(LiveTables))
    /\ ((Dumping /\ result.status = "ok") ~> DumpReturned)

C21_Witness ==
    /\ DumpReturned
    /\ call.batch_size = 2
    /\ Cardinality(power) = 3
    /\ call.overwrite
    /\ files[call.path] = Some(LiveTables)

(* C22: dump_as_sqlite with overwrite = false on an existing destination   *)
(* raises before any work: the file is unchanged and no statement is sent  *)
(* to the source.                                                          *)
C22_NoOverwrite ==
    [][ ( /\ Idle
          /\ call'.op = "dump_as_sqlite"
          /\ ~call'.overwrite
          /\ files[call'.path] # None )
        => ( /\ result'.status = "raised"
             /\ result'.error = "ValueError"
             /\ call'.pc = "done"
             /\ files' = files
             /\ queries' = 0 ) ]_vars

C22_Witness ==
    /\ Dumping
    /\ ~call.overwrite
    /\ result.status = "raised"
    /\ files[call.path] # None
    /\ files[call.path] # Some(EmptyTables)
    /\ queries = 0

-----------------------------------------------------------------------------
(* Database export: DataSaver._prepare_export (saver.py 112-190) and       *)
(* DataSaver._export_db (277-367), with list_pp_inverters and get_pp_info  *)
(* (data.py 272-347).  A file name is the sequence of its parts.           *)

(* list.sort() with PowerPlantID.__lt__.                                   *)
RECURSIVE SortIdentities(_)
SortIdentities(S) ==
    IF S = {} THEN <<>>
    ELSE LET m == CHOOSE x \in S : \A y \in S \ {x} : PowerPlantID_lt(x, y)
         IN  <<m>> \o SortIdentities(S \ {m})

(* list_pp_inverters(): every (pp_id, inv_id) of the meta table, sorted.   *)
list_pp_inverters ==
    SortIdentities({PowerPlantID(m.pp, Some(m.inv)) : m \in meta})

(* get_pp_info: the meta rows of the plant, of the inverter when pp_id     *)
(* names one; every row when pp_id is None.                                *)
get_pp_info(pp_id) ==
    {m \in meta :
        \/ pp_id = None
        \/ /\ m.pp = pp_id[1].pp
           /\ is_whole_power_plant(pp_id[1]) \/ m.inv = pp_id[1].inv[1]}

(* format_pp_id, saver.py 103-110; pp_id is None or Some(identity).        *)
format_pp_id(pp_id) ==
    IF pp_id = None THEN <<>>
    ELSE IF is_whole_power_plant(pp_id[1]) THEN <<"pp", ToString(pp_id[1].pp)>>
    ELSE <<"pp", ToString(pp_id[1].pp), "_inv",
           IF pp_id[1].inv[1] >= 0 THEN ToString(pp_id[1].inv[1]) ELSE "A">>

(* Line 297: f"{base_path}/{base_name}{'_' if base_name else ''}solardb.db" *)
db_path(base_name) ==
    IF base_name = <<>> THEN <<"solardb.db">> ELSE base_name \o <<"_", "solardb.db">>

(* np.unique([i.pp_id for i in pp_inv_list]), as whole-plant identities.   *)
whole_plants(pp_inv_list) ==
    LET pps == SortInts({pp_inv_list[i].pp : i \in DOMAIN pp_inv_list})
    IN  [k \in DOMAIN pps |-> Some(PowerPlantID(pps[k], None))]

(* _prepare_export: sep_pp_ids, the identities exported one by one.        *)
prepare_export(separate_pp, separate_inv, pp_inv_list) ==
    IF separate_pp
    THEN IF separate_inv
         THEN [i \in DOMAIN pp_inv_list |-> Some(pp_inv_list[i])]
         ELSE whole_plants(pp_inv_list)
    ELSE <<None>>

(* DataFrame.to_sql: the frame's cells written as a table row.  The frames *)
(* exported are not smoothed, so every numeric cell is a stored value.     *)
to_sql_power(rows) ==
    {PRec(rows[i].pp[1], rows[i].inv[1], rows[i].dt, rows[i].power_ac,
          rows[i].ipolated, rows[i].epolated) : i \in DOMAIN rows}

to_sql_weather(rows) ==
    {[pp |-> rows[i].pp[1], dt |-> rows[i].dt, age |-> rows[i].age[1],
      src_dt |-> rows[i].src_dt[1],
      summary |-> rows[i].summary[1],
      temp |-> IF rows[i].temp = NaN THEN None ELSE Some(rows[i].temp[1]),
      ipolated |-> rows[i].ipolated[1],
      epolated |-> rows[i].epolated[1]] : i \in DOMAIN rows}

to_sql_exogenous(rows) ==
    {ERec(rows[i].pp[1], rows[i].dt, rows[i].sun_altitude) : i \in DOMAIN rows}

(* to_sql(if_exists="append") into a table created with its primary key:   *)
(* a frame holding a key the table already holds is rejected as a whole,   *)
(* and the export ends there with the exception.                           *)
append_frame(st, name, data) ==
    IF ~st.ok THEN st
    ELSE IF key_conflict(st.tables, name, data) THEN [st EXCEPT !.ok = FALSE]
    ELSE [st EXCEPT !.tables = insert_rows(st.tables, name, data)]

AsArg(pp_id) == IF pp_id = None THEN None ELSE Some(ObjArg(pp_id[1]))

(* Lines 305-366: the four fetches of one identity and their appends.      *)
export_identity(pp_id, st) ==
    append_frame(
        append_frame(
            append_frame(
                append_frame(st, "power",
                    to_sql_power(get_pp_power(AsArg(pp_id), None, None, TRUE, TRUE).res.rows)),
                "weather",
                to_sql_weather(get_pp_weather(AsArg(pp_id), None, None, TRUE, None, None,
                                              FALSE, TRUE, TRUE).res.rows)),
            "exogenous",
            to_sql_exogenous(get_pp_exogenous(AsArg(pp_id), None, None, TRUE, TRUE).res.rows)),
        "meta", get_pp_info(pp_id))

(* Lines 300-302: drop_all / create_all if separate_pp or idx == 0.        *)
export_start(separate_pp, idx, disk, path) ==
    IF separate_pp \/ idx = 1 THEN EmptyTables ELSE disk[path][1]

RECURSIVE export_loop(_, _, _, _)

export_step(ids, idx, separate_pp, disk, path, st) ==
    IF st.ok
    THEN export_loop(ids, idx + 1, separate_pp, [disk EXCEPT ![path] = Some(st.tables)])
    ELSE [res |-> Raised("IntegrityError"), files |-> [disk EXCEPT ![path] = Some(st.tables)]]

export_file(ids, idx, separate_pp, disk, path) ==
    export_step(ids, idx, separate_pp, disk, path,
                export_identity(ids[idx],
                                [tables |-> export_start(separate_pp, idx, disk, path),
                                 ok |-> TRUE]))

(* Lines 293-367: for idx, pp_id in enumerate(sep_pp_ids).                 *)
export_loop(ids, idx, separate_pp, disk) ==
    IF idx > Len(ids)
    THEN [res |-> Ok(<<>>, <<>>), files |-> disk]
    ELSE export_file(ids, idx, separate_pp, disk,
                     db_path(format_pp_id(IF separate_pp THEN ids[idx] ELSE None)))

(* _export_db: _prepare_export is called with separate_pp=True whatever    *)
(* the caller's separate_pp is (line 288).                                 *)
export_db(separate_pp, separate_inv, disk) ==
    export_loop(prepare_export(TRUE, separate_inv, list_pp_inverters), 1, separate_pp, disk)

ExportMetaPool ==
    { MRec(1, 0 - 1, "north"), MRec(1, 0, "north"), MRec(2, 0 - 1, "south") }

ExportPowerPool ==
    { PRec(1, 0 - 1, Hour(0),               100, FALSE, FALSE),
      PRec(1, 0 - 1, Hour(0) + P_FREQUENCY, 110, TRUE,  FALSE),
      PRec(1, 0,     Hour(0),               50,  FALSE, FALSE),
      PRec(2, 0 - 1, Hour(0),               70,  FALSE, FALSE) }

ExportWeatherPool ==
    { WRec(1, Hour(0), 0, "clear",  Some(10), FALSE, FALSE),
      WRec(1, Hour(1), 0, "rain",   Some(12), FALSE, FALSE),
      WRec(1, Hour(1), 1, "cloudy", None,     TRUE,  FALSE),
      WRec(2, Hour(0), 0, "snow",   Some(3),  FALSE, FALSE) }

ExportExogenousPool == { ERec(1, Hour(0), 1), ERec(2, Hour(0), 2) }

(* A store as the import leaves it: the meta table lists every series the  *)
(* power table holds and every plant the other tables hold.  At most one   *)
(* power record of the listed series is missing.                           *)
ExportStores ==
    { Tables(m, p,
             {r \in ExportWeatherPool : \E x \in m : x.pp = r.pp},
             {r \in ExportExogenousPool : \E x \in m : x.pp = r.pp}) :
        m \in SUBSET ExportMetaPool,
        p \in SUBSET ExportPowerPool } \cap
    { t \in [meta : SUBSET ExportMetaPool, power : SUBSET ExportPowerPool,
             weather : SUBSET ExportWeatherPool, exogenous : SUBSET ExportExogenousPool] :
        LET listed == {r \in ExportPowerPool :
                          \E x \in t.meta : x.pp = r.pp /\ x.inv = r.inv}
        IN  /\ t.power \subseteq listed
            /\ Cardinality(listed \ t.power) <= 1 }

ExportPaths ==
    {db_path(format_pp_id(x)) :
        x \in {None} \cup {Some(PowerPlantID(m.pp, inv)) :
                              m \in ExportMetaPool, inv \in {None, Some(0 - 1), Some(0)}}}

InitExport ==
    /\ \E t \in ExportStores :
          /\ meta = t.meta
          /\ power = t.power
          /\ weather = t.weather
          /\ exogenous = t.exogenous
    /\ files = [path \in ExportPaths \cup DumpPaths |-> None]
    /\ call = [op |-> "none"]
    /\ result = Ok(<<>>, <<>>)
    /\ queries = 0
    /\ source = <<>>
    /\ caller = <<>>

ExportDb ==
    /\ Idle
    /\ \E separate_pp \in BOOLEAN, separate_inv \in BOOLEAN :
        LET out == export_db(separate_pp, separate_inv, files)
        IN  /\ call' = [op |-> "_export_db", separate_pp |-> separate_pp,
                        separate_inv |-> separate_inv]
            /\ result' = out.res
            /\ files' = out.files
    /\ UNCHANGED <<weather, power, exogenous, meta, queries, source, caller>>

(* The fetches repeated on an exported file.  kind, target, window and     *)
(* selection name the fetch; the file's tables become the live store, as   *)
(* SolarDBData(url=file) makes them.                                       *)
fetch(kind, target, window, src_age) ==
    CASE kind = "power" ->
            get_pp_power(target, window[1], window[2], TRUE, TRUE).res
      [] kind = "weather" ->
            get_pp_weather(target, window[1], window[2], TRUE, src_age, None,
                           FALSE, TRUE, TRUE).res
      [] OTHER ->
            get_pp_exogenous(target, window[1], window[2], TRUE, TRUE).res

ExportWindow == <<<<"datetime", Hour(0)>>, <<"datetime", Hour(1)>>>>

Exported == call.op = "_export_db"

(* <<file, target>>: the files an export or dump wrote, each with the      *)
(* identities it was written for.                                          *)
Scopes ==
    IF Exported
    THEN IF call.separate_pp
         THEN LET ids == prepare_export(TRUE, call.separate_inv, list_pp_inverters)
              IN  {<<db_path(format_pp_id(ids[i])), AsArg(ids[i])>> : i \in DOMAIN ids}
         ELSE {<<db_path(<<>>), t>> :
                  t \in {None} \cup {Some(ObjArg(PowerPlantID(m.pp, None))) : m \in meta}}
    ELSE IF DumpReturned
    THEN {<<call.path, t>> :
             t \in {None} \cup {Some(ObjArg(PowerPlantID(m.pp, None))) : m \in meta}}
    ELSE {}

Requery ==
    /\ \E sc \in Scopes, kind \in {"power", "weather", "exogenous"} :
       \E src_age \in (IF kind = "weather" THEN {None, Some(0)} ELSE {None}) :
        /\ files[sc[1]] # None
        /\ meta' = files[sc[1]][1].meta
        /\ power' = files[sc[1]][1].power
        /\ weather' = files[sc[1]][1].weather
        /\ exogenous' = files[sc[1]][1].exogenous
        /\ call' = [op |-> "requery", path |-> sc[1], kind |-> kind, pp_id |-> sc[2],
                    src_age |-> src_age, after |-> call.op, raised |-> result.status = "raised"]
        /\ result' = [status |-> "ok", error |-> "", index |-> <<>>, rows |-> <<>>,
                      original |-> fetch(kind, sc[2], ExportWindow, src_age),
                      exported |-> fetch(kind, sc[2], ExportWindow, src_age)']
    /\ queries' = queries + 2
    /\ UNCHANGED <<files, source, caller>>

NextExport ==
    \/ ExportDb
    \/ DumpAsSqlite \/ DumpCount \/ DumpBatch \/ DumpNextTable
    \/ Requery

SpecExport == InitExport /\ [][NextExport]_vars

(* C29: a database export never inserts a key twice into one destination   *)
(* file: for every separate_pp, separate_inv and every meta table the      *)
(* export completes without a key conflict.                                *)
C29_ExportWithoutKeyConflict ==
    Exported => result.status = "ok"

(* C24: after an export or a dump of a non-empty store without date        *)
(* filter, a bounded fetch on the exported file returns the rows the same  *)
(* fetch returned on the original store.                                   *)
C24_RoundTrip ==
    call.op = "requery" => result.exported = result.original

====
